---- MODULE Spec2Model ----
(***************************************************************************)
(* A model of the Knuth-Plass line breaker of tex-linebreak:               *)
(* breakLines, adjustmentRatios and positionItems of src/src/html.ts (the   *)
(* layout module, lines 1331-1896), and the string helpers                 *)
(* layoutItemsFromString and layoutText of src/unnamed/part_008 (lines     *)
(* 210-322).                                                               *)
(*                                                                         *)
(* Numbers.  The program computes with IEEE doubles.  The model computes   *)
(* with exact values:                                                      *)
(*   - widths, stretch, shrink, costs and penalties are integers;          *)
(*   - an adjustment ratio is +Infinity, -Infinity, NaN or a rational      *)
(*     k / scale, kept as the integer k.  scale is fixed per input: it is  *)
(*     a common multiple of every stretch and shrink sum the program can   *)
(*     divide by, so every quotient the program forms is exact;            *)
(*   - demerits are kept multiplied by scale^6, as multi-limb integers     *)
(*     (the products do not fit the checker's machine integers).           *)
(* Item indices, line numbers and breakpoints are 0-based as in the        *)
(* program; the TLA+ sequence items is 1-based, Item(i) reads items[i].    *)
(***************************************************************************)
EXTENDS Integers, Sequences, FiniteSets, TLC

VARIABLES
    items,          \* breakLines argument `items`
    lineLengths,    \* breakLines argument `lineLengths`: a number or an array
    opts,           \* breakLines argument `opts` of the outermost call
    pc,             \* "call": breakLines is entered; "loop": inside the for
                    \* loop; "returned"; "threw"; "measured": the caller
                    \* has the ratios of the result; "position":
                    \* positionItems is entered; "positioned"; "string":
                    \* layoutItemsFromString is entered; "items": it has
                    \* returned; "layoutText": layoutText is entered;
                    \* "done": it has returned; "failed": it or
                    \* justifyContent has thrown; "justify": justifyContent
                    \* is entered; "justified": it has returned
    error,          \* "none", "InvalidItem", "MaxAdjustmentExceeded" or
                    \* "TypeError"
    initialMax,     \* opts_.initialMaxAdjustmentRatio of the running call
    b,              \* loop variable of the running call
    nodes,          \* every Node object created by the running call
    active,         \* the Set `active`, as indices into nodes
    sumWidth,
    sumStretch,
    sumShrink,
    minAbove,       \* minAdjustmentRatioAboveThreshold
    output,         \* the array breakLines returned
    ratios,         \* the array adjustmentRatios returned for output
    fallbackNodes,  \* history: the nodes that the fallback branch created
    lastRemoved,    \* history: lastActive of the latest break iteration (0: null)
    prevMax,        \* history: thresholds of the calls that recursed, oldest first
    breakpoints,    \* positionItems argument `breakpoints`
    includeGlue,    \* positionItems argument `options.includeGlue`
    positions,      \* the array positionItems returned
    text,           \* layoutItemsFromString argument `s`, layoutText argument
                    \* `text`: a sequence of characters
    measureFn,      \* the callback that measures a string
    hyphenateFn,    \* the callback that splits a word, or Undefined
    textItems,      \* the array layoutItemsFromString returned
    attempt,        \* layoutText: 0 outside layoutText, 1 in the try block,
                    \* 2 in the catch block
    earlier,        \* the outcomes of the calls of breakLines the caller made
                    \* before the running one, oldest first
    content,        \* justifyContent: the child nodes of the paragraph element
    justified,      \* history: width and innerHTML of the paragraph at the end
                    \* of each call of justifyContent, oldest first
    scale           \* representation: ratios and demerits are held in units of
                    \* 1/scale and 1/scale^6

vars == <<items, lineLengths, opts, pc, error, initialMax, b, nodes, active,
          sumWidth, sumStretch, sumShrink, minAbove, output, ratios,
          fallbackNodes, lastRemoved, prevMax, breakpoints, includeGlue,
          positions, text, measureFn, hyphenateFn, textItems, attempt, earlier,
          content, justified, scale>>

\* the state of the string helpers
helperVars == <<text, measureFn, hyphenateFn, textItems, attempt>>

\* the paragraph element of justifyContent
domVars == <<content, justified>>

-----------------------------------------------------------------------------
(* Bounds of the model *)

MaxLen == 3          \* longest enumerated item sequence
MaxFairLen == 2      \* the same, for the runs checked under fairness
MaxPasses == 6       \* recursion depth explored
MaxPosLen == 2       \* longest enumerated item sequence given to positionItems
MaxTextLen == 4      \* longest enumerated string given to layoutItemsFromString
MaxJustifyLen == 6   \* longest text of a paragraph given to justifyContent
MaxJustifyCalls == 3 \* calls of justifyContent on one paragraph
MaxLayoutLen == 3    \* longest enumerated string given to layoutText

-----------------------------------------------------------------------------
(* Program constants *)

MIN_COST == -1000
MAX_COST == 1000
FALLBACK_DEMERITS == 1000

-----------------------------------------------------------------------------
(* Multi-limb integers.  They stand for the doubles holding demerits.  The  *)
(* sequence s is the integer s[1] + s[2] * Base + s[3] * Base^2 + ...; in a *)
(* normal form every limb but the last is in 0..Base-1, the last limb is in *)
(* -Base..Base-1 and carries the sign, and there is no redundant last limb, *)
(* so equal integers are equal sequences.                                   *)

Base == 2 ^ 13

\* the element of a singleton.  Only({e(v) : v \in {x}}) is e(x) with x
\* evaluated once, however often e uses it: the multi-limb operators are
\* written this way because an operator argument is otherwise evaluated
\* again at each of its uses
Only(S) == CHOOSE r \in S : TRUE

RECURSIVE BigTrim(_)
\* drop redundant top limbs
BigTrim(s) ==
    Only({ LET n == Len(sv)
           IN IF n <= 1 THEN sv
              ELSE IF sv[n] = 0 THEN BigTrim(SubSeq(sv, 1, n - 1))
              ELSE IF sv[n] = -1
              THEN BigTrim(Append(SubSeq(sv, 1, n - 2), sv[n - 1] - Base))
              ELSE sv : sv \in {s} })

RECURSIVE BigCarry(_, _, _)
\* propagate carries through the limbs s[i..], carry coming in
BigCarry(s, i, carry) ==
    Only({ IF i > Len(s)
           THEN IF cv >= -Base /\ cv < Base THEN <<cv>>
                ELSE <<cv % Base>> \o BigCarry(s, i, cv \div Base)
           ELSE <<(s[i] + cv) % Base>> \o BigCarry(s, i + 1, (s[i] + cv) \div Base)
           : cv \in {carry} })

BigNorm(s) == Only({ BigTrim(BigCarry(sv, 1, 0)) : sv \in {s} })

BigFromInt(x) == BigNorm(<<x>>)

BigZero == <<0>>

BigLimb(x, i) == IF i <= Len(x) THEN x[i] ELSE 0

BigLen(x, y) == IF Len(x) > Len(y) THEN Len(x) ELSE Len(y)

BigAdd(x, y) ==
    Only({ BigNorm([i \in 1..BigLen(xv, yv) |-> BigLimb(xv, i) + BigLimb(yv, i)])
           : xv \in {x}, yv \in {y} })

BigSub(x, y) ==
    Only({ BigNorm([i \in 1..BigLen(xv, yv) |-> BigLimb(xv, i) - BigLimb(yv, i)])
           : xv \in {x}, yv \in {y} })

RECURSIVE BigColumn(_, _, _, _)
\* sum of x[j] * y[i + 1 - j] for j in from..i
BigColumn(x, y, i, from) ==
    IF from > i \/ from > Len(x) THEN 0
    ELSE BigLimb(x, from) * BigLimb(y, i + 1 - from) + BigColumn(x, y, i, from + 1)

BigMul(x, y) ==
    Only({ BigNorm([i \in 1..(Len(xv) + Len(yv)) |->
                      BigColumn(xv, yv, i, IF i > Len(yv) THEN i + 1 - Len(yv) ELSE 1)])
           : xv \in {x}, yv \in {y} })

BigSquare(x) == Only({ BigMul(xv, xv) : xv \in {x} })

\* n^3 for an integer n
BigCubeOf(n) ==
    Only({ IF nv > -1000 /\ nv < 1000 THEN BigFromInt(nv * nv * nv)
           ELSE BigMul(BigFromInt(nv), BigSquare(BigFromInt(nv))) : nv \in {n} })

\* x < y
BigLess(x, y) == Only({ d[Len(d)] < 0 : d \in {BigSub(x, y)} })

\* scale^3, the factor of badness and of the 1 in (1 + badness)
BigOne == BigCubeOf(scale)

\* the demerits value d (a non-negative integer of the program) in scaled form
BigDemerits(d) ==
    Only({ IF dv = 0 THEN BigZero ELSE BigMul(BigFromInt(dv), BigSquare(BigOne))
           : dv \in {d} })

-----------------------------------------------------------------------------
(* Adjustment ratios: doubles that are k / scale,     +-Infinity or NaN    *)

Fin(k) == [t |-> "fin", v |-> k]
PosInf == [t |-> "inf", v |-> 0]
NegInf == [t |-> "ninf", v |-> 0]
NaN == [t |-> "nan", v |-> 0]

\* the double n (an integer) as a ratio
Num(n) == Fin(n * scale)

ROrd(x) == CASE x.t = "ninf" -> -1 [] x.t = "fin" -> 0 [] x.t = "inf" -> 1 [] OTHER -> 2

\* x < y, x <= y, x > y, x >= y on doubles: false when either is NaN
RLt(x, y) ==
    /\ x.t # "nan" /\ y.t # "nan"
    /\ \/ ROrd(x) < ROrd(y)
       \/ x.t = "fin" /\ y.t = "fin" /\ x.v < y.v

RLe(x, y) == x.t # "nan" /\ y.t # "nan" /\ (RLt(x, y) \/ x = y)
RGt(x, y) == RLt(y, x)
RGe(x, y) == RLe(y, x)

\* Math.min(x, y)
RMin(x, y) ==
    IF x.t = "nan" \/ y.t = "nan" THEN NaN
    ELSE IF RLt(y, x) THEN y ELSE x

\* Math.max(x, y)
RMax(x, y) ==
    IF x.t = "nan" \/ y.t = "nan" THEN NaN
    ELSE IF RLt(x, y) THEN y ELSE x

\* x + y on doubles
RPlus(x, y) ==
    IF x.t = "nan" \/ y.t = "nan" THEN NaN
    ELSE IF x.t = "fin" /\ y.t = "fin" THEN Fin(x.v + y.v)
    ELSE IF x.t = "fin" THEN y
    ELSE IF y.t = "fin" THEN x
    ELSE IF x.t = y.t THEN x ELSE NaN

\* x * n on doubles, n an integer
RTimes(x, n) ==
    IF x.t = "nan" THEN NaN
    ELSE IF x.t = "fin" THEN Fin(x.v * n)
    ELSE IF n = 0 THEN NaN
    ELSE IF (n > 0) = (x.t = "inf") THEN PosInf ELSE NegInf

\* isFinite(x)
IsFinite(x) == x.t = "fin"

Abs(n) == IF n < 0 THEN -n ELSE n

\* the double n / d for integers n and d
Quot(n, d) ==
    IF d = 0 THEN (IF n > 0 THEN PosInf ELSE IF n < 0 THEN NegInf ELSE NaN)
    ELSE IF d > 0 THEN Fin((n * scale) \div d)
    ELSE Fin(-((n * scale) \div (-d)))

MIN_ADJUSTMENT_RATIO == Num(-1)

\* 2 * x, used to compare x with -0.5 and 0.5
Twice(x) == IF x.t = "fin" THEN Fin(2 * x.v) ELSE x

-----------------------------------------------------------------------------
(* Items *)

Box(w) == [type |-> "box", width |-> w, stretch |-> 0, shrink |-> 0,
           cost |-> 0, flagged |-> FALSE]
Glue(w, shrink, stretch) ==
    [type |-> "glue", width |-> w, stretch |-> stretch, shrink |-> shrink,
     cost |-> 0, flagged |-> FALSE]
Penalty(w, cost, flagged) ==
    [type |-> "penalty", width |-> w, stretch |-> 0, shrink |-> 0,
     cost |-> cost, flagged |-> flagged]

forcedBreak == Penalty(0, MIN_COST, FALSE)

isForcedBreak(item) == item.type = "penalty" /\ item.cost <= MIN_COST

\* items[i] of the program, i counted from 0
ItemOf(its, i) == its[i + 1]
Item(i) == ItemOf(items, i)

\* lineLen(i) of breakLines and adjustmentRatios
LineLenOf(ll, i) == IF ll.array THEN ll.lens[i + 1] ELSE ll.len
lineLen(i) == LineLenOf(lineLengths, i)

-----------------------------------------------------------------------------
(* breakLines: the state of one call *)

Null == [t |-> "null", v |-> 0]

\* mutant of currentMaxAdjustmentRatio: the hard maxAdjustmentRatio does not
\* cap the threshold
currentMaxAdjustmentRatio_NoHardMax == initialMax

\* mutant of currentMaxAdjustmentRatio: a recursive call starts again from the
\* caller's initialMaxAdjustmentRatio
currentMaxAdjustmentRatio_NotRaised ==
    RMin(opts.initialMaxAdjustmentRatio,
         IF opts.maxAdjustmentRatio # Null THEN opts.maxAdjustmentRatio ELSE PosInf)

\* currentMaxAdjustmentRatio
currentMaxAdjustmentRatio ==
    RMin(initialMax,
         IF opts.maxAdjustmentRatio # Null THEN opts.maxAdjustmentRatio ELSE PosInf)

\* the node added before the loop
InitialNode ==
    [index |-> 0, line |-> 0, fitness |-> 0, totalWidth |-> 0,
     totalStretch |-> 0, totalShrink |-> 0, totalDemerits |-> BigZero,
     prev |-> 0]

\* mutant of InvalidItem: stretch and shrink of a glue are not checked
InvalidItem_WidthOnly(item) == item.width < 0

\* the checks that throw `Error` at the top of an iteration
InvalidItem(item) ==
    \/ item.width < 0
    \/ item.type = "glue" /\ (item.shrink < 0 \/ item.stretch < 0)

\* mutant of CanBreakAt: a glue is a breakpoint whatever precedes it
CanBreakAt_AnyGlue(its, i) ==
    LET item == ItemOf(its, i)
    IN CASE item.type = "box" -> FALSE
         [] item.type = "glue" -> i > 0
         [] OTHER -> item.cost < MAX_COST

\* canBreak for items[i]
CanBreakAt(its, i) ==
    LET item == ItemOf(its, i)
    IN CASE item.type = "box" -> FALSE
         [] item.type = "glue" -> i > 0 /\ ItemOf(its, i - 1).type = "box"
         [] OTHER -> item.cost < MAX_COST

canBreak == CanBreakAt(items, b)

\* adjustmentRatio of the line from node a to items[b]
AdjustmentRatio(a) ==
    LET item == Item(b)
        lineShrink == sumShrink - a.totalShrink
        lineStretch == sumStretch - a.totalStretch
        idealLen == lineLen(a.line)
        actualLen == sumWidth - a.totalWidth
                     + (IF item.type = "penalty" THEN item.width ELSE 0)
    IN IF actualLen < idealLen
       THEN Quot(idealLen - actualLen, lineStretch)
       ELSE Quot(idealLen - actualLen, lineShrink)

\* 100 * |r|^3, times scale^3
BigBadness(r) == BigMul(BigCubeOf(Abs(r.v)), BigFromInt(100))

\* mutant of BaseDemerits: the square of a negative penalty is added, not
\* subtracted
BaseDemerits_PenaltyAdded(r, item) ==
    LET penalty == IF item.type = "penalty" THEN item.cost ELSE 0
    IN IF penalty >= 0
       THEN BigSquare(BigAdd(BigMul(BigFromInt(1 + penalty), BigOne), BigBadness(r)))
       ELSE IF penalty > MIN_COST
       THEN BigAdd(BigSquare(BigAdd(BigOne, BigBadness(r))),
                   BigSquare(BigMul(BigFromInt(-penalty), BigOne)))
       ELSE BigSquare(BigAdd(BigOne, BigBadness(r)))

\* demerits before the hyphen and fitness penalties, times scale^6
BaseDemerits(r, item) ==
    LET penalty == IF item.type = "penalty" THEN item.cost ELSE 0
    IN IF penalty >= 0
       THEN BigSquare(BigAdd(BigMul(BigFromInt(1 + penalty), BigOne), BigBadness(r)))
       ELSE IF penalty > MIN_COST
       THEN BigSub(BigSquare(BigAdd(BigOne, BigBadness(r))),
                   BigSquare(BigMul(BigFromInt(-penalty), BigOne)))
       ELSE BigSquare(BigAdd(BigOne, BigBadness(r)))

\* mutant of DoubleHyphenPenalty: the flag of the earlier breakpoint is not
\* looked at
DoubleHyphenPenalty_ThisItemOnly(a, item) ==
    LET prevItem == Item(a.index)
    IN IF /\ item.type = "penalty" /\ prevItem.type = "penalty"
          /\ item.flagged
       THEN opts.doubleHyphenPenalty ELSE 0

\* doubleHyphenPenalty added to the demerits of the line from a to item
DoubleHyphenPenalty(a, item) ==
    LET prevItem == Item(a.index)
    IN IF /\ item.type = "penalty" /\ prevItem.type = "penalty"
          /\ item.flagged /\ prevItem.flagged
       THEN opts.doubleHyphenPenalty ELSE 0

\* fitness class of a ratio
Fitness(r) ==
    IF RLt(Twice(r), Num(-1)) THEN 0
    ELSE IF RLt(Twice(r), Num(1)) THEN 1
    ELSE IF RLt(r, Num(1)) THEN 2
    ELSE 3

\* mutant of FitnessPenalty: the first line is compared with the fitness of
\* the initial node as well
FitnessPenalty_FirstLineToo(a, fitness) ==
    IF Abs(fitness - a.fitness) > 1
    THEN opts.adjacentLooseTightPenalty ELSE 0

FitnessPenalty(a, fitness) ==
    IF a.index > 0 /\ Abs(fitness - a.fitness) > 1
    THEN opts.adjacentLooseTightPenalty ELSE 0

\* demerits of the line from a to items[b], times scale^6
Demerits(a, r) ==
    BigAdd(BaseDemerits(r, Item(b)),
           BigDemerits(DoubleHyphenPenalty(a, Item(b))
                       + FitnessPenalty(a, Fitness(r))))

RECURSIVE ToNextBox(_, _)
\* widthToNextBox, shrinkToNextBox, stretchToNextBox of the scan from bp
ToNextBox(its, bp) ==
    IF bp >= Len(its) THEN [width |-> 0, shrink |-> 0, stretch |-> 0]
    ELSE LET item == ItemOf(its, bp)
         IN IF \/ item.type = "box"
               \/ item.type = "penalty" /\ item.cost >= MAX_COST
            THEN [width |-> 0, shrink |-> 0, stretch |-> 0]
            ELSE LET rest == ToNextBox(its, bp + 1)
                 IN [width |-> item.width + rest.width,
                     shrink |-> (IF item.type = "glue" THEN item.shrink ELSE 0)
                                + rest.shrink,
                     stretch |-> (IF item.type = "glue" THEN item.stretch ELSE 0)
                                 + rest.stretch]

\* mutant of FeasibleNode: the node takes the line number of its predecessor
FeasibleNode_SameLine(ai) ==
    LET a == nodes[ai]
        r == AdjustmentRatio(a)
        next == ToNextBox(items, b)
    IN [index |-> b, line |-> a.line, fitness |-> Fitness(r),
        totalWidth |-> sumWidth + next.width,
        totalStretch |-> sumStretch + next.stretch,
        totalShrink |-> sumShrink + next.shrink,
        totalDemerits |-> BigAdd(a.totalDemerits, Demerits(a, r)),
        prev |-> ai]

\* the node pushed to `feasible` for the active node with index ai in nodes
FeasibleNode(ai) ==
    LET a == nodes[ai]
        r == AdjustmentRatio(a)
        next == ToNextBox(items, b)
    IN [index |-> b, line |-> a.line + 1, fitness |-> Fitness(r),
        totalWidth |-> sumWidth + next.width,
        totalStretch |-> sumStretch + next.stretch,
        totalShrink |-> sumShrink + next.shrink,
        totalDemerits |-> BigAdd(a.totalDemerits, Demerits(a, r)),
        prev |-> ai]

\* mutant of Removed: a forced break does not delete the active nodes
Removed_OverfullOnly ==
    {ai \in active : RLt(AdjustmentRatio(nodes[ai]), MIN_ADJUSTMENT_RATIO)}

\* the active nodes the forEach callback deletes at items[b]
Removed ==
    {ai \in active :
        \/ RLt(AdjustmentRatio(nodes[ai]), MIN_ADJUSTMENT_RATIO)
        \/ isForcedBreak(Item(b))}

\* the active nodes from which the line to items[b] is feasible
FeasibleFrom ==
    {ai \in active :
        /\ RGe(AdjustmentRatio(nodes[ai]), MIN_ADJUSTMENT_RATIO)
        /\ RLe(AdjustmentRatio(nodes[ai]), currentMaxAdjustmentRatio)}

SetMax(S) == CHOOSE x \in S : \A y \in S : y <= x

\* lastActive after the forEach (0 stands for null); the Set iterates in
\* insertion order, which is the order of creation in nodes
LastActive == IF Removed = {} THEN 0 ELSE SetMax(Removed)

RECURSIVE MinAboveOver(_, _)
\* minAdjustmentRatioAboveThreshold after the forEach over the nodes S
MinAboveOver(S, m) ==
    IF S = {} THEN m
    ELSE LET ai == CHOOSE x \in S : TRUE
             r == AdjustmentRatio(nodes[ai])
         IN MinAboveOver(S \ {ai},
                         IF RGt(r, currentMaxAdjustmentRatio) THEN RMin(r, m) ELSE m)

\* mutant of NewMinAbove: the minimum is taken over the active nodes of this
\* iteration only
NewMinAbove_ThisIteration == MinAboveOver(active, PosInf)

NewMinAbove == MinAboveOver(active, minAbove)

\* mutant of BestOf: `<=` for `<`, the last node of least totalDemerits
BestOf_LastOnTie(cands) ==
    CHOOSE ai \in DOMAIN cands :
        \A aj \in DOMAIN cands :
            /\ aj > ai => BigLess(cands[ai].totalDemerits, cands[aj].totalDemerits)
            /\ aj < ai => ~BigLess(cands[aj].totalDemerits, cands[ai].totalDemerits)

\* the first node of least totalDemerits among the records of cands, which
\* maps node indices (in iteration order) to nodes
BestOf(cands) ==
    CHOOSE ai \in DOMAIN cands :
        \A aj \in DOMAIN cands :
            /\ aj < ai => BigLess(cands[ai].totalDemerits, cands[aj].totalDemerits)
            /\ aj > ai => ~BigLess(cands[aj].totalDemerits, cands[ai].totalDemerits)

\* bestNode of the `feasible` array
BestFeasible ==
    LET cands == [ai \in FeasibleFrom |-> FeasibleNode(ai)]
    IN cands[BestOf(cands)]

\* `active` after the best feasible node was added
ActiveAfterBest ==
    (active \ Removed) \cup (IF FeasibleFrom # {} THEN {Len(nodes) + 1} ELSE {})

\* the sums after the trailing `if (item.type === 'glue')` of an iteration
SumsAfter(item) ==
    /\ sumWidth' = sumWidth + (IF item.type = "glue" THEN item.width ELSE 0)
    /\ sumStretch' = sumStretch + (IF item.type = "glue" THEN item.stretch ELSE 0)
    /\ sumShrink' = sumShrink + (IF item.type = "glue" THEN item.shrink ELSE 0)

\* mutant of FallbackNode: lastActive is the node removed first, not last
FallbackNode_FirstRemoved ==
    LET first == CHOOSE x \in Removed : \A y \in Removed : x <= y
    IN [index |-> b, line |-> nodes[first].line + 1, fitness |-> 1,
        totalWidth |-> sumWidth, totalStretch |-> sumStretch,
        totalShrink |-> sumShrink,
        totalDemerits |-> BigAdd(nodes[first].totalDemerits,
                                 BigDemerits(FALLBACK_DEMERITS)),
        prev |-> first]

\* the node created by the fallback branch
FallbackNode ==
    [index |-> b, line |-> nodes[LastActive].line + 1, fitness |-> 1,
     totalWidth |-> sumWidth, totalStretch |-> sumStretch,
     totalShrink |-> sumShrink,
     totalDemerits |-> BigAdd(nodes[LastActive].totalDemerits,
                              BigDemerits(FALLBACK_DEMERITS)),
     prev |-> LastActive]

RECURSIVE Chain_NoReverse(_, _)
\* mutant of Chain: the output array is not reversed
Chain_NoReverse(ns, ai) ==
    IF ai = 0 THEN <<>> ELSE <<ns[ai].index>> \o Chain_NoReverse(ns, ns[ai].prev)

RECURSIVE Chain(_, _)
\* the indices of the nodes from the root to node ai, following prev
Chain(ns, ai) ==
    IF ai = 0 THEN <<>> ELSE Append(Chain(ns, ns[ai].prev), ns[ai].index)

\* bestNode of the final forEach over `active`
FinalBest ==
    BestOf([ai \in active |-> nodes[ai]])

-----------------------------------------------------------------------------
(* Inputs *)

RECURSIVE SeqsUpTo(_, _)
\* the sequences over S of length at most n
SeqsUpTo(S, n) ==
    IF n = 0 THEN {<<>>}
    ELSE LET shorter == SeqsUpTo(S, n - 1)
         IN shorter \cup {Append(s, x) : s \in {t \in shorter : Len(t) = n - 1}, x \in S}

RECURSIVE SumAbs(_, _, _)
\* sum of |stretch| (f = "stretch") or |shrink| of its[i..Len(its)]
SumAbs(its, f, i) ==
    IF i > Len(its) THEN 0
    ELSE Abs(IF f = "stretch" THEN its[i].stretch ELSE its[i].shrink)
         + SumAbs(its, f, i + 1)

RECURSIVE Gcd(_, _)
Gcd(x, y) == IF y = 0 THEN x ELSE Gcd(y, x % y)

RECURSIVE LcmUpTo(_)
\* least common multiple of 1..n
LcmUpTo(n) ==
    IF n <= 1 THEN 1
    ELSE LET m == LcmUpTo(n - 1) IN (m \div Gcd(m, n)) * n

\* a common multiple of every divisor the program can meet on its: a divisor
\* is a difference of two partial sums of stretch or of shrink
QuotientScale(its) ==
    LET st == SumAbs(its, "stretch", 1)
        sh == SumAbs(its, "shrink", 1)
    IN LcmUpTo(IF st > sh THEN st ELSE sh)

\* the items the enumerated sequences are made of
Alphabet ==
    { Box(2), Box(3), Box(6), Box(-1),
      Glue(1, 1, 1), Glue(1, 0, 0), Glue(1, 1, -1),
      Penalty(1, 10, TRUE), Penalty(0, MAX_COST, FALSE), forcedBreak }

\* finishing glue and forced break that end a well-formed paragraph
Ending == << Glue(0, 0, 4), forcedBreak >>

Number(w) == [array |-> FALSE, len |-> w, lens |-> <<>>]
Array(ws) == [array |-> TRUE, len |-> 0, lens |-> ws]

\* line lengths tried with an item sequence of n items
LineChoices(n) ==
    { Number(4), Array([i \in 1..n |-> IF i % 2 = 1 THEN 5 ELSE 3]) }

Options(max, initial, dhp, altp) ==
    [maxAdjustmentRatio |-> max, initialMaxAdjustmentRatio |-> initial,
     doubleHyphenPenalty |-> dhp, adjacentLooseTightPenalty |-> altp]

defaultOptions == Options(Null, Num(1), 0, 0)

OptionChoices ==
    { defaultOptions,
      Options(Num(1), Num(1), 0, 0),
      Options(Num(2), Num(1), 0, 0),
      Options(Num(1), Num(0), 0, 0),
      Options(Null, Num(0), 0, 0),
      Options(Null, Num(1), 200, 0),
      Options(Null, Num(1), 0, 10000) }

\* literal inputs, from the tests of breakLines
Scenarios ==
    { \* 'succeeds when min adjustment ratio is exceeded', scaled
      [items |-> << Box(6), Glue(1, 1, 1), Box(6), Glue(1, 1, 1), Box(6),
                    Glue(1, 1, 1), forcedBreak >>,
       lineLengths |-> Number(4)],
      \* 'throws `MaxAdjustmentExceededError` if max adjustment ratio is
      \* exceeded', scaled
      [items |-> << Box(2), Glue(1, 1, 1), Box(2), forcedBreak >>,
       lineLengths |-> Number(10)],
      \* the same paragraph followed by an item of negative width
      [items |-> << Box(2), Glue(1, 1, 1), Box(2), forcedBreak, Box(-1) >>,
       lineLengths |-> Number(10)],
      \* 'does not lose the optimum when negative values are present'
      [items |-> << Box(12), Glue(0, 2, 0), Box(-2), Glue(0, 0, 0), Box(9),
                    Glue(0, 0, 3), forcedBreak >>,
       lineLengths |-> Number(10)],
      \* two forced lines that need the ratios 2 and 3
      [items |-> << Box(2), Glue(1, 1, 1), Box(3), forcedBreak,
                    Box(2), Glue(1, 1, 1), Box(2), forcedBreak >>,
       lineLengths |-> Number(8)],
      \* a hyphenated word: the line after the hyphen
      [items |-> << Box(2), Glue(1, 1, 1), Box(1), Penalty(1, 10, TRUE), Box(2),
                    Glue(1, 1, 1), Box(3) >> \o Ending,
       lineLengths |-> Number(4)],
      \* six words on three lines of contrasting tightness
      [items |-> << Box(2), Glue(1, 1, 1), Box(3), Glue(1, 1, 1), Box(2),
                    Glue(1, 1, 1), Box(2), Glue(1, 1, 1), Box(3), Glue(1, 1, 1),
                    Box(3) >> \o Ending,
       lineLengths |-> Number(7)],
      \* two words that fit one line when shrunk, with a hyphen after them
      [items |-> << Box(2), Glue(1, 1, 1), Box(2), Penalty(1, 10, TRUE) >>
                 \o Ending,
       lineLengths |-> Number(4)],
      \* a break of negative cost after a line shrunk to the limit, then a
      \* line stretched to the default threshold
      [items |-> << Box(2), Glue(1, 1, 1), Box(2), Penalty(0, -10, FALSE),
                    Box(2), Glue(1, 1, 1), forcedBreak >>,
       lineLengths |-> Number(4)],
      \* a line break at a space that is followed by two more spaces
      [items |-> << Box(2), Glue(1, 1, 1), Box(1), Glue(1, 1, 1),
                    Glue(1, 1, 1), Glue(1, 1, 1), Box(3) >> \o Ending,
       lineLengths |-> Number(4)] }

\* the enumerated inputs with at most n items before the ending, and the
\* literal ones
InputsUpTo(n) ==
    { [items |-> body \o tail, lineLengths |-> ll] :
        body \in SeqsUpTo(Alphabet, n), tail \in {<<>>, Ending},
        ll \in {Number(4)} }
    \cup Scenarios

Inputs == InputsUpTo(MaxLen)

-----------------------------------------------------------------------------
(* The string helpers: layoutItemsFromString *)

\* the value of a parameter that was not passed
Undefined == "undefined"

\* a TextBox or TextGlue: an item with a `text` property
WithText(item, t) == [item |-> item, hasText |-> TRUE, text |-> t]

\* an item without `text` property
WithoutText(item) == [item |-> item, hasText |-> FALSE, text |-> <<>>]

\* /\s/ on a character
IsSpaceChar(c) == c \in {" ", "\t"}

\* isSpace(word)
isSpace(w) == IsSpaceChar(w[1])

RECURSIVE RunLength(_, _)
\* the length of the longest prefix of s[i..] of characters of the class
\* (whitespace or not) of s[i]
RunLength(s, i) ==
    IF i < Len(s) /\ IsSpaceChar(s[i + 1]) = IsSpaceChar(s[i])
    THEN 1 + RunLength(s, i + 1)
    ELSE 1

RECURSIVE Chunks_PerCharacter(_)
\* mutant of Chunks: the separator is /(\s)/, one whitespace character
Chunks_PerCharacter(s) ==
    IF s = <<>> THEN <<>>
    ELSE LET n == IF IsSpaceChar(s[1]) THEN 1 ELSE RunLength(s, 1)
         IN <<SubSeq(s, 1, n)>> \o Chunks_PerCharacter(SubSeq(s, n + 1, Len(s)))

RECURSIVE Chunks(_)
\* s.split(/(\s+)/).filter(w => w.length > 0): the runs of whitespace and the
\* runs of other characters, in order
Chunks(s) ==
    IF s = <<>> THEN <<>>
    ELSE LET n == RunLength(s, 1)
         IN <<SubSeq(s, 1, n)>> \o Chunks(SubSeq(s, n + 1, Len(s)))

\* measureFn(w) for the measuring callback m: a constant, a width per
\* character, or a width per character that is not whitespace
Measure(m, w) ==
    IF m.kind = "constant" THEN m.width
    ELSE IF w = <<"-">> THEN m.hyphen
    ELSE IF m.kind = "length" THEN Len(w) * m.perChar
    ELSE Cardinality({i \in 1..Len(w) : ~IsSpaceChar(w[i])}) * m.perChar

RECURSIVE Split(_)
\* w.split('-')
Split(w) ==
    IF \A i \in 1..Len(w) : w[i] # "-" THEN <<w>>
    ELSE LET i == CHOOSE k \in 1..Len(w) :
                      w[k] = "-" /\ \A j \in 1..(k - 1) : w[j] # "-"
         IN <<SubSeq(w, 1, i - 1)>> \o Split(SubSeq(w, i + 1, Len(w)))

\* hyphenateFn(w) for the hyphenating callback h
Hyphenate(h, w) ==
    CASE h = "split" -> Split(w)
      [] h = "characters" -> [i \in 1..Len(w) |-> <<w[i]>>]
      [] h = "nothing" -> <<>>
      [] OTHER -> <<w>>

\* the glue of a run of whitespace w
SpaceGlue(m, w) ==
    LET spaceWidth == Measure(m, <<" ">>)
        shrink == IF spaceWidth - 2 > 0 THEN spaceWidth - 2 ELSE 0
    IN WithText(Glue(spaceWidth, shrink, (spaceWidth * 3) \div 2), w)

RECURSIVE FragmentItems_PenaltyAfterEach(_, _, _)
\* mutant of FragmentItems: a penalty follows the last fragment too
FragmentItems_PenaltyAfterEach(m, chunks, i) ==
    IF i > Len(chunks) THEN <<>>
    ELSE << WithText(Box(Measure(m, chunks[i])), chunks[i]),
            WithoutText(Penalty(Measure(m, <<"-">>), 10, TRUE)) >>
         \o FragmentItems_PenaltyAfterEach(m, chunks, i + 1)

RECURSIVE FragmentItems(_, _, _)
\* what chunks.forEach((c, i) => ...) pushes for the fragments chunks[i..]
FragmentItems(m, chunks, i) ==
    IF i > Len(chunks) THEN <<>>
    ELSE << WithText(Box(Measure(m, chunks[i])), chunks[i]) >>
         \o (IF i < Len(chunks)
             THEN << WithoutText(Penalty(Measure(m, <<"-">>), 10, TRUE)) >>
             ELSE <<>>)
         \o FragmentItems(m, chunks, i + 1)

\* what is pushed for the chunk w
ChunkItems(m, h, w) ==
    IF isSpace(w) THEN << SpaceGlue(m, w) >>
    ELSE IF h # Undefined THEN FragmentItems(m, Hyphenate(h, w), 1)
    ELSE << WithText(Box(Measure(m, w)), w) >>

RECURSIVE ChunksItems(_, _, _, _)
\* what the outer forEach pushes for chunks[i..]
ChunksItems(m, h, chunks, i) ==
    IF i > Len(chunks) THEN <<>>
    ELSE ChunkItems(m, h, chunks[i]) \o ChunksItems(m, h, chunks, i + 1)

\* the finishing glue
FinishingGlue == WithText(Glue(0, 0, MAX_COST), <<>>)

layoutItemsFromString(s, m, h) ==
    ChunksItems(m, h, Chunks(s), 1) \o << FinishingGlue, WithoutText(forcedBreak) >>

\* the state of the helpers while they are not in use
NoHelper ==
    /\ text = <<>>
    /\ measureFn = [kind |-> "constant", width |-> 0, hyphen |-> 0, perChar |-> 0]
    /\ hyphenateFn = Undefined
    /\ textItems = <<>>
    /\ attempt = 0

-----------------------------------------------------------------------------
(* breakLines: the steps *)

\* a call of breakLines on one of the inputs ins
InitFrom(ins) ==
    /\ \E in \in ins :
        /\ items = in.items
        /\ scale = QuotientScale(in.items)
        /\ \E ll \in {in.lineLengths} \cup LineChoices(Len(in.items)) :
              lineLengths = ll
    /\ opts \in OptionChoices
    /\ pc = "call"
    /\ error = "none"
    /\ initialMax = opts.initialMaxAdjustmentRatio
    /\ b = 0
    /\ nodes = <<>>
    /\ active = {}
    /\ sumWidth = 0
    /\ sumStretch = 0
    /\ sumShrink = 0
    /\ minAbove = PosInf
    /\ output = <<>>
    /\ ratios = <<>>
    /\ fallbackNodes = {}
    /\ lastRemoved = 0
    /\ prevMax = <<>>
    /\ breakpoints = <<>>
    /\ includeGlue = FALSE
    /\ positions = <<>>
    /\ earlier = <<>>
    /\ content = <<>>
    /\ justified = <<>>
    /\ NoHelper

Init == InitFrom(Inputs)

\* the state of a call when it enters the for loop
EnterLoop ==
    /\ pc' = "loop"
    /\ b' = 0
    /\ nodes' = <<InitialNode>>
    /\ active' = {1}
    /\ sumWidth' = 0
    /\ sumStretch' = 0
    /\ sumShrink' = 0
    /\ minAbove' = PosInf
    /\ fallbackNodes' = {}
    /\ lastRemoved' = 0

\* mutant of ReturnEmpty: the empty array is not told apart, the result
\* holds the initial breakpoint
ReturnEmpty_InitialBreakpoint ==
    /\ pc = "call"
    /\ items = <<>>
    /\ pc' = "returned"
    /\ output' = <<0>>
    /\ UNCHANGED <<domVars, earlier, helperVars, scale, breakpoints, includeGlue, positions, ratios, items, lineLengths, opts, error, initialMax, b, nodes, active,
                   sumWidth, sumStretch, sumShrink, minAbove, fallbackNodes,
                   lastRemoved, prevMax>>

\* breakLines is called with an empty array
ReturnEmpty ==
    /\ pc = "call"
    /\ items = <<>>
    /\ pc' = "returned"
    /\ output' = <<>>
    /\ UNCHANGED <<domVars, earlier, helperVars, scale, breakpoints, includeGlue, positions, ratios, items, lineLengths, opts, error, initialMax, b, nodes, active,
                   sumWidth, sumStretch, sumShrink, minAbove, fallbackNodes,
                   lastRemoved, prevMax>>

\* breakLines is called with items
Call ==
    /\ pc = "call"
    /\ items # <<>>
    /\ EnterLoop
    /\ UNCHANGED <<domVars, earlier, helperVars, scale, breakpoints, includeGlue, positions, ratios, items, lineLengths, opts, error, initialMax, output, prevMax>>

InLoop == pc = "loop" /\ b < Len(items)

\* an iteration that throws because of a negative width, stretch or shrink
ThrowInvalidItem ==
    /\ InLoop
    /\ InvalidItem(Item(b))
    /\ pc' = "threw"
    /\ error' = "InvalidItem"
    /\ UNCHANGED <<domVars, earlier, helperVars, scale, breakpoints, includeGlue, positions, ratios, items, lineLengths, opts, initialMax, b, nodes, active,
                   sumWidth, sumStretch, sumShrink, minAbove, output,
                   fallbackNodes, lastRemoved, prevMax>>

\* an iteration that ends at `continue`: items[b] is not a legal breakpoint
SkipItem ==
    /\ InLoop
    /\ ~InvalidItem(Item(b))
    /\ ~canBreak
    /\ sumWidth' = sumWidth + (IF Item(b).type \in {"box", "glue"}
                               THEN Item(b).width ELSE 0)
    /\ sumShrink' = sumShrink + (IF Item(b).type = "glue" THEN Item(b).shrink ELSE 0)
    /\ sumStretch' = sumStretch + (IF Item(b).type = "glue" THEN Item(b).stretch ELSE 0)
    /\ b' = b + 1
    /\ UNCHANGED <<domVars, earlier, helperVars, scale, breakpoints, includeGlue, positions, ratios, items, lineLengths, opts, pc, error, initialMax, nodes, active,
                   minAbove, output, fallbackNodes, lastRemoved, prevMax>>

AtBreak == InLoop /\ ~InvalidItem(Item(b)) /\ canBreak

\* an iteration at a legal breakpoint that leaves the active set non-empty
\* without the fallback
BreakStep ==
    /\ AtBreak
    /\ ActiveAfterBest # {}
    /\ nodes' = IF FeasibleFrom # {} THEN Append(nodes, BestFeasible) ELSE nodes
    /\ active' = ActiveAfterBest
    /\ minAbove' = NewMinAbove
    /\ lastRemoved' = LastActive
    /\ SumsAfter(Item(b))
    /\ b' = b + 1
    /\ UNCHANGED <<domVars, earlier, helperVars, scale, breakpoints, includeGlue, positions, ratios, items, lineLengths, opts, pc, error, initialMax, output,
                   fallbackNodes, prevMax>>

\* an iteration that empties the active set and recurses with a higher
\* initialMaxAdjustmentRatio
Retry ==
    /\ AtBreak
    /\ ActiveAfterBest = {}
    /\ IsFinite(NewMinAbove)
    /\ opts.maxAdjustmentRatio # currentMaxAdjustmentRatio
    /\ Len(prevMax) < MaxPasses
    /\ initialMax' = NewMinAbove
    /\ prevMax' = Append(prevMax, currentMaxAdjustmentRatio)
    /\ EnterLoop
    /\ UNCHANGED <<domVars, earlier, helperVars, scale, breakpoints, includeGlue, positions, ratios, items, lineLengths, opts, error, output>>

\* mutant of ThrowMaxAdjustmentExceeded: the threshold is not compared with
\* maxAdjustmentRatio before throwing
ThrowMaxAdjustmentExceeded_Unconditional ==
    /\ AtBreak
    /\ ActiveAfterBest = {}
    /\ IsFinite(NewMinAbove)
    /\ pc' = "threw"
    /\ error' = "MaxAdjustmentExceeded"
    /\ minAbove' = NewMinAbove
    /\ lastRemoved' = LastActive
    /\ UNCHANGED <<domVars, earlier, helperVars, scale, breakpoints, includeGlue, positions, ratios, items, lineLengths, opts, initialMax, b, nodes, active,
                   sumWidth, sumStretch, sumShrink, output, fallbackNodes, prevMax>>

\* an iteration that empties the active set at the hard maxAdjustmentRatio
ThrowMaxAdjustmentExceeded ==
    /\ AtBreak
    /\ ActiveAfterBest = {}
    /\ IsFinite(NewMinAbove)
    /\ opts.maxAdjustmentRatio = currentMaxAdjustmentRatio
    /\ pc' = "threw"
    /\ error' = "MaxAdjustmentExceeded"
    /\ minAbove' = NewMinAbove
    /\ lastRemoved' = LastActive
    /\ UNCHANGED <<domVars, earlier, helperVars, scale, breakpoints, includeGlue, positions, ratios, items, lineLengths, opts, initialMax, b, nodes, active,
                   sumWidth, sumStretch, sumShrink, output, fallbackNodes, prevMax>>

\* mutant of Fallback: the fallback node is created but not added to the
\* active set
Fallback_NotAdded ==
    /\ AtBreak
    /\ ActiveAfterBest = {}
    /\ ~IsFinite(NewMinAbove)
    /\ nodes' = Append(nodes, FallbackNode)
    /\ active' = {}
    /\ fallbackNodes' = fallbackNodes \cup {Len(nodes) + 1}
    /\ minAbove' = NewMinAbove
    /\ lastRemoved' = LastActive
    /\ SumsAfter(Item(b))
    /\ b' = b + 1
    /\ UNCHANGED <<domVars, earlier, helperVars, scale, breakpoints, includeGlue, positions, ratios, items, lineLengths, opts, pc, error, initialMax, output, prevMax>>

\* an iteration that empties the active set and creates the fallback node
Fallback ==
    /\ AtBreak
    /\ ActiveAfterBest = {}
    /\ ~IsFinite(NewMinAbove)
    /\ nodes' = Append(nodes, FallbackNode)
    /\ active' = {Len(nodes) + 1}
    /\ fallbackNodes' = fallbackNodes \cup {Len(nodes) + 1}
    /\ minAbove' = NewMinAbove
    /\ lastRemoved' = LastActive
    /\ SumsAfter(Item(b))
    /\ b' = b + 1
    /\ UNCHANGED <<domVars, earlier, helperVars, scale, breakpoints, includeGlue, positions, ratios, items, lineLengths, opts, pc, error, initialMax, output, prevMax>>

\* after the loop: choose the best active node and follow prev back
Finish ==
    /\ pc = "loop"
    /\ b = Len(items)
    /\ pc' = "returned"
    /\ output' = Chain(nodes, FinalBest)
    /\ UNCHANGED <<domVars, earlier, helperVars, scale, breakpoints, includeGlue, positions, ratios, items, lineLengths, opts, error, initialMax, b, nodes, active,
                   sumWidth, sumStretch, sumShrink, minAbove, fallbackNodes,
                   lastRemoved, prevMax>>

-----------------------------------------------------------------------------
(* adjustmentRatios *)

RECURSIVE LineSums(_, _, _, _)
\* actualWidth, lineShrink and lineStretch of the items p..end of a line that
\* starts at start, as the inner loop of adjustmentRatios accumulates them
LineSums(its, start, end, p) ==
    IF p > end THEN [width |-> 0, shrink |-> 0, stretch |-> 0]
    ELSE LET item == ItemOf(its, p)
             rest == LineSums(its, start, end, p + 1)
         IN IF item.type = "box"
            THEN [rest EXCEPT !.width = @ + item.width]
            ELSE IF item.type = "glue" /\ p # start /\ p # end
            THEN [width |-> rest.width + item.width,
                  shrink |-> rest.shrink + item.shrink,
                  stretch |-> rest.stretch + item.stretch]
            ELSE IF item.type = "penalty" /\ p = end
            THEN [rest EXCEPT !.width = @ + item.width]
            ELSE rest

\* the first item of line l (0-based) of breakpoints bps
LineStart(bps, l) == IF l = 0 THEN bps[1] ELSE bps[l + 1] + 1

\* the ratio adjustmentRatios pushes for line l (0-based)
LineRatio(its, ll, bps, l) ==
    LET idealWidth == LineLenOf(ll, l)
        sums == LineSums(its, LineStart(bps, l), bps[l + 2], LineStart(bps, l))
    IN IF sums.width < idealWidth
       THEN Quot(idealWidth - sums.width, sums.stretch)
       ELSE Quot(idealWidth - sums.width, sums.shrink)

adjustmentRatios(its, ll, bps) ==
    [l \in 1..(Len(bps) - 1) |-> LineRatio(its, ll, bps, l - 1)]

\* the caller passes the result of breakLines to adjustmentRatios
CallAdjustmentRatios ==
    /\ pc = "returned"
    /\ pc' = "measured"
    /\ ratios' = adjustmentRatios(items, lineLengths, output)
    /\ UNCHANGED <<domVars, earlier, helperVars, scale, breakpoints, includeGlue, positions, items, lineLengths, opts, error, initialMax, b, nodes, active,
                   sumWidth, sumStretch, sumShrink, minAbove, output,
                   fallbackNodes, lastRemoved, prevMax>>

-----------------------------------------------------------------------------
(* positionItems *)

\* mutant of LineAdjustmentRatio: the ratio is used as adjustmentRatios
\* reports it
LineAdjustmentRatio_NotLimited(its, ll, bps, l) == LineRatio(its, ll, bps, l)

\* adjustmentRatio of line l (0-based): the reported ratio, limited below
LineAdjustmentRatio(its, ll, bps, l) ==
    RMax(LineRatio(its, ll, bps, l), MIN_ADJUSTMENT_RATIO)

\* gap of a glue on a line with ratio r
Gap(item, r) ==
    IF RLt(r, Num(0))
    THEN RPlus(Num(item.width), RTimes(r, item.shrink))
    ELSE RPlus(Num(item.width), RTimes(r, item.stretch))

PositionedItem(p, l, xOffset, width) ==
    [item |-> p, line |-> l, xOffset |-> xOffset, width |-> width]

RECURSIVE PositionLine(_, _, _, _, _, _, _, _)
\* what the inner loop pushes for the items p..end of line l, which starts
\* at start and has ratio r, when it reaches items[p] with xOffset
PositionLine(its, r, l, start, end, p, xOffset, glueToo) ==
    IF p > end THEN <<>>
    ELSE LET item == ItemOf(its, p)
         IN IF item.type = "box"
            THEN <<PositionedItem(p, l, xOffset, Num(item.width))>>
                 \o PositionLine(its, r, l, start, end, p + 1,
                                 RPlus(xOffset, Num(item.width)), glueToo)
            ELSE IF item.type = "glue" /\ p # start /\ p # end
            THEN (IF glueToo
                  THEN <<PositionedItem(p, l, xOffset, Gap(item, r))>>
                  ELSE <<>>)
                 \o PositionLine(its, r, l, start, end, p + 1,
                                 RPlus(xOffset, Gap(item, r)), glueToo)
            ELSE IF item.type = "penalty" /\ p = end /\ item.width > 0
            THEN <<PositionedItem(p, l, xOffset, Num(item.width))>>
                 \o PositionLine(its, r, l, start, end, p + 1, xOffset, glueToo)
            ELSE PositionLine(its, r, l, start, end, p + 1, xOffset, glueToo)

RECURSIVE PositionLines(_, _, _, _, _)
\* what the outer loop pushes for the lines l.. (0-based)
PositionLines(its, ll, bps, glueToo, l) ==
    IF l >= Len(bps) - 1 THEN <<>>
    ELSE PositionLine(its, LineAdjustmentRatio(its, ll, bps, l), l,
                      LineStart(bps, l), bps[l + 2], LineStart(bps, l),
                      Num(0), glueToo)
         \o PositionLines(its, ll, bps, glueToo, l + 1)

positionItems(its, ll, bps, glueToo) == PositionLines(its, ll, bps, glueToo, 0)

\* the caller passes the result of breakLines to positionItems
CallPositionItems ==
    /\ pc = "returned"
    /\ pc' = "positioned"
    /\ breakpoints' = output
    /\ includeGlue' \in BOOLEAN
    /\ positions' = positionItems(items, lineLengths, output, includeGlue')
    /\ UNCHANGED <<domVars, earlier, helperVars, scale, ratios, items, lineLengths, opts, error, initialMax, b, nodes,
                   active, sumWidth, sumStretch, sumShrink, minAbove, output,
                   fallbackNodes, lastRemoved, prevMax>>

Next ==
    \/ ReturnEmpty
    \/ Call
    \/ ThrowInvalidItem
    \/ SkipItem
    \/ BreakStep
    \/ Retry
    \/ ThrowMaxAdjustmentExceeded
    \/ Fallback
    \/ Finish
    \/ CallAdjustmentRatios
    \/ CallPositionItems

Spec == Init /\ [][Next]_vars

\* a call that can take a step takes it: the program runs to completion
FairInit == InitFrom(InputsUpTo(MaxFairLen))

FairSpec == FairInit /\ [][Next]_vars /\ WF_vars(Next)

-----------------------------------------------------------------------------
(* positionItems called with breakpoints of the caller's own *)

RECURSIVE SeqOfSet(_)
\* the elements of a set of integers in increasing order
SeqOfSet(S) ==
    IF S = {} THEN <<>>
    ELSE LET x == CHOOSE y \in S : \A z \in S : y <= z
         IN <<x>> \o SeqOfSet(S \ {x})

\* the breakpoint arrays tried with n items: increasing indices, at least
\* two, and the arrays that start with 0 twice
BreakpointChoices(n) ==
    LET incr == { SeqOfSet(S) : S \in {T \in SUBSET (0..(n - 1)) : Cardinality(T) >= 2} }
    IN incr \cup { <<0>> \o bps : bps \in {c \in incr : c[1] = 0} }

\* literal inputs, from the tests of positionItems
PositionScenarios ==
    { \* 'lays out items with justified margins', scaled
      [items |-> << Box(2), Glue(2, 1, 1), Box(2), Glue(2, 1, 1), Box(2),
                    Glue(2, 1, 1), forcedBreak >>,
       lineLengths |-> Number(7), breakpoints |-> <<0, 3, 6>>],
      \* 'does not let gap between boxes shrink below `glue.width -
      \* glue.shrink`', scaled
      [items |-> << Box(2), Glue(2, 1, 1), Box(20), forcedBreak >>,
       lineLengths |-> Number(10), breakpoints |-> <<0, 3>>] }

\* the arguments of the calls of positionItems
PositionInputs ==
    { [items |-> in.items, lineLengths |-> ll, breakpoints |-> bps] :
        in \in { x \in InputsUpTo(MaxPosLen) : Len(x.items) <= MaxPosLen + 2 },
        ll \in LineChoices(MaxPosLen + 2),
        bps \in BreakpointChoices(MaxPosLen + 2) }
    \cup PositionScenarios

\* a call of positionItems
PositionInit ==
    /\ \E in \in PositionInputs :
        /\ \A k \in 1..Len(in.breakpoints) : in.breakpoints[k] < Len(in.items)
        /\ items = in.items
        /\ scale = QuotientScale(in.items)
        /\ lineLengths = in.lineLengths
        /\ breakpoints = in.breakpoints
    /\ includeGlue \in BOOLEAN
    /\ pc = "position"
    /\ opts = defaultOptions
    /\ error = "none"
    /\ initialMax = opts.initialMaxAdjustmentRatio
    /\ b = 0
    /\ nodes = <<>>
    /\ active = {}
    /\ sumWidth = 0
    /\ sumStretch = 0
    /\ sumShrink = 0
    /\ minAbove = PosInf
    /\ output = <<>>
    /\ ratios = <<>>
    /\ fallbackNodes = {}
    /\ lastRemoved = 0
    /\ prevMax = <<>>
    /\ positions = <<>>
    /\ earlier = <<>>
    /\ content = <<>>
    /\ justified = <<>>
    /\ NoHelper

\* positionItems runs on its arguments
PositionItems ==
    /\ pc = "position"
    /\ pc' = "positioned"
    /\ positions' = positionItems(items, lineLengths, breakpoints, includeGlue)
    /\ UNCHANGED <<domVars, earlier, helperVars, scale, breakpoints, includeGlue, ratios, items, lineLengths, opts,
                   error, initialMax, b, nodes, active, sumWidth, sumStretch,
                   sumShrink, minAbove, output, fallbackNodes, lastRemoved,
                   prevMax>>

PositionSpec == PositionInit /\ [][PositionItems]_vars

-----------------------------------------------------------------------------
(* layoutItemsFromString called on a string *)

\* the characters the enumerated strings are made of
Characters == {"a", "-", " ", "\t"}

\* literal strings, from the tests of layoutItemsFromString
TextScenarios ==
    { << "h", "e", "l", "-", "l", "o", " ", "w", "o", "-", "r", "l", "d" >>,
      << "T", "e", "s", "t", " ", "l", "i", "n", "e" >> }

\* the measuring callbacks: () => 4, the callback of 'generates flagged
\* penalty items at hyphenation points' with 4 for 5, and one whose spaces
\* cannot shrink.  The width of a space is even, so that its stretch, 1.5
\* times the width, is an integer.
MeasureChoices ==
    { [kind |-> "constant", width |-> 4, hyphen |-> 0, perChar |-> 0],
      [kind |-> "length", width |-> 0, hyphen |-> 1, perChar |-> 4],
      [kind |-> "length", width |-> 0, hyphen |-> 1, perChar |-> 2] }

\* the hyphenating callbacks: none, w => w.split('-') of the tests, one that
\* never splits, one that splits between all characters, one that returns
\* no fragment
HyphenateChoices == {Undefined, "split", "whole", "characters", "nothing"}

\* a call of layoutItemsFromString
StringInit ==
    /\ text \in SeqsUpTo(Characters, MaxTextLen) \cup TextScenarios
    /\ measureFn \in MeasureChoices
    /\ hyphenateFn \in HyphenateChoices
    /\ textItems = <<>>
    /\ attempt = 0
    /\ pc = "string"
    /\ items = <<>>
    /\ scale = 1
    /\ lineLengths = Number(0)
    /\ opts = defaultOptions
    /\ error = "none"
    /\ initialMax = opts.initialMaxAdjustmentRatio
    /\ b = 0
    /\ nodes = <<>>
    /\ active = {}
    /\ sumWidth = 0
    /\ sumStretch = 0
    /\ sumShrink = 0
    /\ minAbove = PosInf
    /\ output = <<>>
    /\ ratios = <<>>
    /\ fallbackNodes = {}
    /\ lastRemoved = 0
    /\ prevMax = <<>>
    /\ breakpoints = <<>>
    /\ includeGlue = FALSE
    /\ positions = <<>>
    /\ earlier = <<>>
    /\ content = <<>>
    /\ justified = <<>>

\* layoutItemsFromString runs on its arguments
LayoutItemsFromString ==
    /\ pc = "string"
    /\ pc' = "items"
    /\ textItems' = layoutItemsFromString(text, measureFn, hyphenateFn)
    /\ UNCHANGED <<domVars, earlier, text, measureFn, hyphenateFn, attempt, scale, breakpoints,
                   includeGlue, positions, ratios, items, lineLengths, opts, error,
                   initialMax, b, nodes, active, sumWidth, sumStretch, sumShrink,
                   minAbove, output, fallbackNodes, lastRemoved, prevMax>>

StringSpec == StringInit /\ [][LayoutItemsFromString]_vars

-----------------------------------------------------------------------------
(* The string helpers: layoutText *)

\* the items of an array of TextInputItem, as breakLines and positionItems
\* read them
ItemsOf(tis) == [k \in 1..Len(tis) |-> tis[k].item]

RECURSIVE RangeSum(_, _, _, _)
\* sum of the stretch (f = "stretch") or shrink of its[i..j]
RangeSum(its, f, i, j) ==
    IF i > j THEN 0
    ELSE (IF f = "stretch" THEN its[i].stretch ELSE its[i].shrink)
         + RangeSum(its, f, i + 1, j)

RECURSIVE LcmOf(_)
\* least common multiple of a set of positive integers
LcmOf(S) ==
    IF S = {} THEN 1
    ELSE LET x == CHOOSE y \in S : TRUE
             m == LcmOf(S \ {x})
         IN (m \div Gcd(m, x)) * x

\* the least common multiple of every divisor the program can meet on its:
\* the stretch and the shrink of the ranges of consecutive items
RangeScale(its) ==
    LcmOf({ Abs(RangeSum(its, f, i, j)) :
              f \in {"stretch", "shrink"}, i \in 1..Len(its), j \in 1..Len(its) }
          \ {0})

\* the arguments of the calls of layoutText.  The ratios stay exact within
\* the integers of the checker when spaces have no width, or when the text
\* has one run of whitespace at most.
LayoutTextInputs ==
    { [text |-> t, measure |-> m, hyphenate |-> h, lineWidth |-> w] :
        t \in SeqsUpTo({"a", " "}, MaxLayoutLen)
              \cup { <<"a", "a", " ", "a", "a">>, <<"a", " ", "a", "a", " ", "a">> },
        m \in { [kind |-> "letters", width |-> 0, hyphen |-> 1, perChar |-> 2],
                [kind |-> "letters", width |-> 0, hyphen |-> -1, perChar |-> 2],
                [kind |-> "letters", width |-> 0, hyphen |-> 1, perChar |-> -2],
                [kind |-> "constant", width |-> 4, hyphen |-> 0, perChar |-> 0] },
        h \in {"whole", "characters", "split"},
        w \in {3, 10, 1010, 1012} }

\* a call of layoutText
LayoutTextInit ==
    /\ \E in \in LayoutTextInputs :
        /\ \/ Measure(in.measure, <<" ">>) = 0
           \/ Cardinality({i \in 1..Len(in.text) : IsSpaceChar(in.text[i])}) <= 1
        /\ text = in.text
        /\ measureFn = in.measure
        /\ hyphenateFn = in.hyphenate
        /\ lineLengths = Number(in.lineWidth)
    /\ textItems = <<>>
    /\ attempt = 0
    /\ pc = "layoutText"
    /\ items = <<>>
    /\ scale = 1
    /\ opts = [maxAdjustmentRatio |-> Null, initialMaxAdjustmentRatio |-> Fin(1),
               doubleHyphenPenalty |-> 0, adjacentLooseTightPenalty |-> 0]
    /\ error = "none"
    /\ initialMax = Fin(1)
    /\ b = 0
    /\ nodes = <<>>
    /\ active = {}
    /\ sumWidth = 0
    /\ sumStretch = 0
    /\ sumShrink = 0
    /\ minAbove = PosInf
    /\ output = <<>>
    /\ ratios = <<>>
    /\ fallbackNodes = {}
    /\ lastRemoved = 0
    /\ prevMax = <<>>
    /\ breakpoints = <<>>
    /\ includeGlue = FALSE
    /\ positions = <<>>
    /\ earlier = <<>>
    /\ content = <<>>
    /\ justified = <<>>

\* layoutText calls breakLines on the items tis, with the options
\* { maxAdjustmentRatio: 1 } (capped) or without options
CallBreakLines(tis, capped) ==
    /\ textItems' = tis
    /\ items' = ItemsOf(tis)
    /\ scale' = RangeScale(ItemsOf(tis))
    /\ opts' = [maxAdjustmentRatio |-> IF capped THEN Fin(1 * scale') ELSE Null,
                initialMaxAdjustmentRatio |-> Fin(1 * scale'),
                doubleHyphenPenalty |-> 0, adjacentLooseTightPenalty |-> 0]
    /\ initialMax' = Fin(1 * scale')
    /\ pc' = "call"
    /\ error' = "none"
    /\ prevMax' = <<>>
    /\ UNCHANGED <<domVars, earlier, text, measureFn, hyphenateFn, lineLengths, b, nodes, active,
                   sumWidth, sumStretch, sumShrink, minAbove, output, ratios,
                   fallbackNodes, lastRemoved, breakpoints, includeGlue, positions>>

\* the try block: items without hyphenation, maxAdjustmentRatio 1
TryLayout ==
    /\ pc = "layoutText"
    /\ attempt' = 1
    /\ CallBreakLines(layoutItemsFromString(text, measureFn, Undefined), TRUE)

\* mutant of CatchMaxAdjustmentExceeded: the catch block does not look at
\* the class of the error
CatchMaxAdjustmentExceeded_AnyError ==
    /\ pc = "threw"
    /\ attempt = 1
    /\ attempt' = 2
    /\ CallBreakLines(layoutItemsFromString(text, measureFn, hyphenateFn), FALSE)

\* the catch block, for MaxAdjustmentExceededError: items with hyphenation,
\* default options
CatchMaxAdjustmentExceeded ==
    /\ pc = "threw"
    /\ attempt = 1
    /\ error = "MaxAdjustmentExceeded"
    /\ attempt' = 2
    /\ CallBreakLines(layoutItemsFromString(text, measureFn, hyphenateFn), FALSE)

\* the catch block, for any other error: `throw e`
Rethrow ==
    /\ pc = "threw"
    /\ attempt = 1
    /\ error # "MaxAdjustmentExceeded"
    /\ pc' = "failed"
    /\ UNCHANGED <<domVars, earlier, helperVars, scale, breakpoints, includeGlue, positions, ratios,
                   items, lineLengths, opts, error, initialMax, b, nodes, active,
                   sumWidth, sumStretch, sumShrink, minAbove, output,
                   fallbackNodes, lastRemoved, prevMax>>

\* an error raised inside the catch block leaves layoutText
ThrowFromCatch ==
    /\ pc = "threw"
    /\ attempt = 2
    /\ pc' = "failed"
    /\ UNCHANGED <<domVars, earlier, helperVars, scale, breakpoints, includeGlue, positions, ratios,
                   items, lineLengths, opts, error, initialMax, b, nodes, active,
                   sumWidth, sumStretch, sumShrink, minAbove, output,
                   fallbackNodes, lastRemoved, prevMax>>

\* breakLines returned, in either block: positionItems runs and layoutText
\* returns { items, breakpoints, positions }
PositionAndReturn ==
    /\ pc = "returned"
    /\ attempt \in {1, 2}
    /\ pc' = "done"
    /\ breakpoints' = output
    /\ positions' = positionItems(items, lineLengths, output, FALSE)
    /\ UNCHANGED <<domVars, earlier, helperVars, scale, includeGlue, ratios, items, lineLengths, opts,
                   error, initialMax, b, nodes, active, sumWidth, sumStretch,
                   sumShrink, minAbove, output, fallbackNodes, lastRemoved,
                   prevMax>>

LayoutTextNext ==
    \/ TryLayout
    \/ Call
    \/ ThrowInvalidItem
    \/ SkipItem
    \/ BreakStep
    \/ Retry
    \/ ThrowMaxAdjustmentExceeded
    \/ Fallback
    \/ Finish
    \/ PositionAndReturn
    \/ CatchMaxAdjustmentExceeded
    \/ Rethrow
    \/ ThrowFromCatch

LayoutTextSpec == LayoutTextInit /\ [][LayoutTextNext]_vars

-----------------------------------------------------------------------------
(* A caller that calls breakLines again on the same paragraph, as the test *)
(* 'applies a penalty for consecutive lines ending with a hyphen' does:    *)
(* with another doubleHyphenPenalty, or with the flags of the penalties    *)
(* cleared.                                                                *)

\* the items its, every penalty with flagged: false
ClearFlags(its) ==
    [i \in 1..Len(its) |->
        IF its[i].type = "penalty" THEN [its[i] EXCEPT !.flagged = FALSE]
        ELSE its[i]]

\* literal inputs with two hyphens
HyphenScenarios ==
    { \* the paragraph of the test, scaled: two hyphenated words
      [items |-> << Box(4), Penalty(1, 10, TRUE), Box(1), Glue(1, 1, 1), Box(1),
                    Penalty(1, 10, TRUE), Box(1), Glue(1, 1, 1), Box(2) >>
                 \o Ending,
       lineLengths |-> Number(4)] }

RepeatInit == InitFrom(Inputs \cup HyphenScenarios)

\* what the caller keeps of the call that ended
Outcome ==
    [items |-> items, opts |-> opts, pc |-> pc, error |-> error,
     output |-> output]

\* breakLines is entered again, with the items its and the options o
CallAgain(its, o) ==
    /\ pc \in {"returned", "threw"}
    /\ earlier' = Append(earlier, Outcome)
    /\ items' = its
    /\ opts' = o
    /\ pc' = "call"
    /\ error' = "none"
    /\ initialMax' = o.initialMaxAdjustmentRatio
    /\ b' = 0
    /\ nodes' = <<>>
    /\ active' = {}
    /\ sumWidth' = 0
    /\ sumStretch' = 0
    /\ sumShrink' = 0
    /\ minAbove' = PosInf
    /\ output' = <<>>
    /\ fallbackNodes' = {}
    /\ lastRemoved' = 0
    /\ prevMax' = <<>>
    /\ UNCHANGED <<domVars, helperVars, scale, lineLengths, ratios, breakpoints,
                   includeGlue, positions>>

\* the second call of the test, the other way round: the same items
\* without a doubleHyphenPenalty
CallAgainWithoutPenalty ==
    /\ opts.doubleHyphenPenalty # 0
    /\ CallAgain(items, [opts EXCEPT !.doubleHyphenPenalty = 0])

\* the same options, the items with their flags cleared
CallAgainUnflagged ==
    /\ ClearFlags(items) # items
    /\ CallAgain(ClearFlags(items), opts)

RepeatNext ==
    \/ ReturnEmpty
    \/ Call
    \/ ThrowInvalidItem
    \/ SkipItem
    \/ BreakStep
    \/ Retry
    \/ ThrowMaxAdjustmentExceeded
    \/ Fallback
    \/ Finish
    \/ CallAgainWithoutPenalty
    \/ CallAgainUnflagged

RepeatSpec == RepeatInit /\ [][RepeatNext]_vars

-----------------------------------------------------------------------------
(* justifyContent on a paragraph element whose children are text nodes,    *)
(* and the nodes that justifyContent inserts: <br>, <span> wrappers and    *)
(* hyphen text nodes.  A node is a record; tagged tells whether the node   *)
(* has the property insertedByTexLinebreak.                                *)

\* style.wordSpacing of a wrapper: a length num/den px, or not set
NoSpacing == [set |-> FALSE, num |-> 0, den |-> 1]

TextNode(d, tagged) ==
    [kind |-> "text", data |-> d, tagged |-> tagged, wordSpacing |-> NoSpacing,
     children |-> <<>>]

BrNode ==
    [kind |-> "br", data |-> <<>>, tagged |-> TRUE, wordSpacing |-> NoSpacing,
     children |-> <<>>]

SpanNode(spacing, ch) ==
    [kind |-> "span", data |-> <<>>, tagged |-> TRUE, wordSpacing |-> spacing,
     children |-> ch]

RECURSIVE WithoutTagged_ElementsOnly(_)
\* mutant of WithoutTagged: only the tagged elements are undone, the hyphen
\* text nodes stay
WithoutTagged_ElementsOnly(ns) ==
    IF ns = <<>> THEN <<>>
    ELSE LET n == Head(ns)
         IN (IF n.tagged /\ n.kind # "text"
             THEN WithoutTagged_ElementsOnly(n.children)
             ELSE <<[n EXCEPT !.children = WithoutTagged_ElementsOnly(n.children)]>>)
            \o WithoutTagged_ElementsOnly(Tail(ns))

RECURSIVE WithoutTagged(_)
\* the loop of unjustifyContent over taggedChildren(el): every tagged node
\* is replaced by its children
WithoutTagged(ns) ==
    IF ns = <<>> THEN <<>>
    ELSE LET n == Head(ns)
         IN (IF n.tagged THEN WithoutTagged(n.children)
             ELSE <<[n EXCEPT !.children = WithoutTagged(n.children)]>>)
            \o WithoutTagged(Tail(ns))

RECURSIVE Normalize(_)
\* el.normalize(): empty text nodes are removed, adjacent ones are joined
Normalize(ns) ==
    IF ns = <<>> THEN <<>>
    ELSE LET n == Head(ns)
             rest == Normalize(Tail(ns))
         IN IF n.kind # "text"
            THEN <<[n EXCEPT !.children = Normalize(n.children)]>> \o rest
            ELSE IF n.data = <<>> THEN rest
            ELSE IF rest # <<>> /\ Head(rest).kind = "text"
            THEN <<[n EXCEPT !.data = n.data \o Head(rest).data]>> \o Tail(rest)
            ELSE <<n>> \o rest

unjustifyContent(ns) == Normalize(WithoutTagged(ns))

\* a DOMItem: an item with the node (0: the paragraph element, k: its k-th
\* child) and the offsets it comes from
DOMItem(item, node, start, end) ==
    [item |-> item, node |-> node, start |-> start, end |-> end]

\* the glue of a run of whitespace in a text node
DOMGlue(m) ==
    LET spaceWidth == Measure(m, <<" ">>)
        shrink == IF spaceWidth - 3 > 0 THEN spaceWidth - 3 ELSE 0
    IN Glue(spaceWidth, shrink, spaceWidth)

RECURSIVE FragmentsLength(_)
FragmentsLength(frags) ==
    IF frags = <<>> THEN 0 ELSE Len(Head(frags)) + FragmentsLength(Tail(frags))

RECURSIVE FragmentDOMItems(_, _, _, _, _)
\* the boxes and penalties of the fragments frags[i..] of a word of the text
\* node k, the first of them at textOffset
FragmentDOMItems(m, k, frags, i, textOffset) ==
    IF i > Len(frags) THEN <<>>
    ELSE LET after == textOffset + Len(frags[i])
             box == DOMItem(Box(Measure(m, frags[i])), k, textOffset, after)
             hyphen == DOMItem(Penalty(Measure(m, <<"-">>), 10, TRUE),
                               k, after, after)
         IN <<box>> \o (IF i < Len(frags) THEN <<hyphen>> ELSE <<>>)
            \o FragmentDOMItems(m, k, frags, i + 1, after)

RECURSIVE ChunkDOMItems(_, _, _, _, _, _)
\* addItemsForTextNode: the items of chunks[i..] of the text node k
ChunkDOMItems(m, h, k, chunks, i, textOffset) ==
    IF i > Len(chunks) THEN <<>>
    ELSE LET w == chunks[i]
         IN IF isSpace(w)
            THEN <<DOMItem(DOMGlue(m), k, textOffset, textOffset + Len(w))>>
                 \o ChunkDOMItems(m, h, k, chunks, i + 1, textOffset + Len(w))
            ELSE IF h # Undefined
            THEN FragmentDOMItems(m, k, Hyphenate(h, w), 1, textOffset)
                 \o ChunkDOMItems(m, h, k, chunks, i + 1,
                                  textOffset + FragmentsLength(Hyphenate(h, w)))
            ELSE <<DOMItem(Box(Measure(m, w)), k, textOffset, textOffset + Len(w))>>
                 \o ChunkDOMItems(m, h, k, chunks, i + 1, textOffset + Len(w))

RECURSIVE ChildrenDOMItems(_, _, _, _)
\* the forEach of addItemsForNode over the children ns[k..]: text nodes
ChildrenDOMItems(ns, m, h, k) ==
    IF k > Len(ns) THEN <<>>
    ELSE (IF ns[k].kind = "text"
          THEN ChunkDOMItems(m, h, k, Chunks(ns[k].data), 1, 0)
          ELSE <<>>)
         \o ChildrenDOMItems(ns, m, h, k + 1)

\* addItemsForNode(items, el, measure, hyphenateFn) on an empty array
addItemsForNode(ns, m, h) ==
    ChildrenDOMItems(ns, m, h, 1)
    \o << DOMItem(Glue(0, 0, 1000), 0, Len(ns), Len(ns)),
          DOMItem(forcedBreak, 0, Len(ns), Len(ns)) >>

RECURSIVE LineWidthAndGlueCount(_, _, _, _)
\* the inner loop of lineWidthsAndGlueCounts from p on, for the line of the
\* items start..stop
LineWidthAndGlueCount(its, start, stop, p) ==
    IF p > stop THEN [width |-> 0, glueCount |-> 0]
    ELSE LET item == ItemOf(its, p)
             rest == LineWidthAndGlueCount(its, start, stop, p + 1)
         IN IF item.type = "box"
            THEN [rest EXCEPT !.width = @ + item.width]
            ELSE IF item.type = "glue" /\ p # start /\ p # stop
            THEN [width |-> rest.width + item.width,
                  glueCount |-> rest.glueCount + 1]
            ELSE IF item.type = "penalty" /\ p = stop
            THEN [rest EXCEPT !.width = @ + item.width]
            ELSE rest

\* lineWidthsAndGlueCounts(items, breakpoints), line l counted from 0
lineWidthsAndGlueCounts(its, bps) ==
    [l \in 0..(Len(bps) - 2) |->
        LET start == IF l = 0 THEN bps[1] ELSE bps[l + 1] + 1
        IN LineWidthAndGlueCount(its, start, bps[l + 2], start)]

\* items[breakpoints[l]], with its node and offsets
BreakItem(tis, bps, l) == tis[bps[l + 1] + 1]

\* the lines after the first whose range starts in the text node: a <br> is
\* inserted at the end offset of the breakpoint before the line
BreaksInText(tis, bps) ==
    {l \in 1..(Len(bps) - 2) : BreakItem(tis, bps, l).node # 0}

\* the lines after the first whose range starts at the end of the paragraph
\* element, the breakpoint before the line being the finishing glue: the
\* <br> becomes the last child, brEl.nextSibling is null and r.setStart
\* throws a TypeError
BreaksAtEnd(tis, bps) ==
    {l \in 1..(Len(bps) - 2) : BreakItem(tis, bps, l).node = 0}

\* the text node number j (from 0) after the text node of data d was split
\* at the <br> elements of the lines 1..m
Piece(d, tis, bps, m, j) ==
    LET from == IF j = 0 THEN 0 ELSE BreakItem(tis, bps, j).end
        to == IF j = m THEN Len(d) ELSE BreakItem(tis, bps, j + 1).end
    IN TextNode(SubSeq(d, from + 1, to), FALSE)

\* the children of the paragraph after the forEach that inserts the
\* linebreaks, and whether it threw
InsertLineBreaks(ns, tis, bps) ==
    IF ns = <<>> THEN [children |-> <<>>, threw |-> FALSE]
    ELSE LET m == Cardinality(BreaksInText(tis, bps))
             end == IF BreaksAtEnd(tis, bps) # {} THEN 1 ELSE 0
         IN [children |->
                [i \in 1..(2 * m + 1 + end) |->
                    IF i % 2 = 0 THEN BrNode
                    ELSE Piece(ns[1].data, tis, bps, m, (i - 1) \div 2)],
             threw |-> end = 1]

\* `${extraSpacePerGlue}px` as style.wordSpacing: a quotient that is not
\* finite is not a length and leaves the property unset
WordSpacing(spaceDiff, glueCount) ==
    IF glueCount = 0 THEN NoSpacing
    ELSE LET g == Gcd(Abs(spaceDiff), glueCount)
         IN [set |-> TRUE, num |-> spaceDiff \div g, den |-> glueCount \div g]

\* the text node of line l after the forEach that adjusts the spacing
AdjustedLine(piece, tis, bps, lineWidth, l) ==
    LET line == lineWidthsAndGlueCounts(ItemsOf(tis), bps)[l]
        spaceDiff == lineWidth - line.width
        \* extraSpacePerGlue >= 0 is false of NaN
        notCompressed == IF line.glueCount = 0 THEN spaceDiff > 0
                         ELSE spaceDiff >= 0
        isFinalLine == l = Len(bps) - 2
        breakItem == BreakItem(tis, bps, l + 1).item
        endsWithHyphen == breakItem.type = "penalty" /\ breakItem.flagged
    IN IF isFinalLine /\ notCompressed THEN piece
       ELSE SpanNode(WordSpacing(spaceDiff, line.glueCount),
                     <<piece>> \o (IF endsWithHyphen
                                   THEN <<TextNode(<<"-">>, TRUE)>> ELSE <<>>))

\* the children of the paragraph when justifyContent returns or throws
Rendered(ns, tis, bps, lineWidth) ==
    LET broken == InsertLineBreaks(ns, tis, bps).children
    IN IF InsertLineBreaks(ns, tis, bps).threw THEN broken
       ELSE [i \in 1..Len(broken) |->
                IF i % 2 = 0 THEN broken[i]
                ELSE AdjustedLine(broken[i], tis, bps, lineWidth, (i - 1) \div 2)]

HtmlToken(tag, char, spacing) ==
    [tag |-> tag, char |-> char, wordSpacing |-> spacing]

RECURSIVE innerHTML(_)
\* el.innerHTML of the children ns, as a sequence of tags and characters
innerHTML(ns) ==
    IF ns = <<>> THEN <<>>
    ELSE LET n == Head(ns)
         IN (CASE n.kind = "text" ->
                    [i \in 1..Len(n.data) |-> HtmlToken("", n.data[i], NoSpacing)]
               [] n.kind = "br" -> <<HtmlToken("<br>", "", NoSpacing)>>
               [] OTHER -> <<HtmlToken("<span>", "", n.wordSpacing)>>
                           \o innerHTML(n.children)
                           \o <<HtmlToken("</span>", "", NoSpacing)>>)
            \o innerHTML(Tail(ns))

RECURSIVE textContent(_)
\* el.textContent of the children ns
textContent(ns) ==
    IF ns = <<>> THEN <<>>
    ELSE (IF Head(ns).kind = "text" THEN Head(ns).data
          ELSE textContent(Head(ns).children))
         \o textContent(Tail(ns))

\* the paragraphs, measuring and hyphenating callbacks and widths of the
\* calls of justifyContent.  The ratios stay exact within the integers of
\* the checker when the text has two runs of whitespace at most.
JustifyWidths == {5, 11, 17}

JustifyInputs ==
    { [text |-> t, split |-> k, measure |-> m, hyphenate |-> h, lineWidth |-> w] :
        t \in { u \in SeqsUpTo({"a", " "}, MaxJustifyLen) :
                  Cardinality({i \in 1..Len(Chunks(u)) : isSpace(Chunks(u)[i])}) <= 2 },
        k \in {0, 1},
        m \in { [kind |-> "length", width |-> 0, hyphen |-> 1, perChar |-> 2],
                [kind |-> "constant", width |-> 4, hyphen |-> 0, perChar |-> 0] },
        h \in {Undefined, "characters"},
        w \in JustifyWidths }

\* a paragraph with the text t: one text node, or (k = 1) the text in two
\* text nodes with an empty one between them
TextNodes(t, k) ==
    IF k = 0 THEN (IF t = <<>> THEN <<>> ELSE <<TextNode(t, FALSE)>>)
    ELSE << TextNode(SubSeq(t, 1, Len(t) \div 2), FALSE), TextNode(<<>>, FALSE),
            TextNode(SubSeq(t, Len(t) \div 2 + 1, Len(t)), FALSE) >>

\* a call of justifyContent(el, hyphenateFn)
JustifyInit ==
    /\ \E in \in JustifyInputs :
        /\ text = in.text
        /\ content = TextNodes(in.text, in.split)
        /\ measureFn = in.measure
        /\ hyphenateFn = in.hyphenate
        /\ lineLengths = Number(in.lineWidth)
    /\ justified = <<>>
    /\ textItems = <<>>
    /\ attempt = 0
    /\ pc = "justify"
    /\ items = <<>>
    /\ scale = 1
    /\ opts = [maxAdjustmentRatio |-> Null, initialMaxAdjustmentRatio |-> Fin(1),
               doubleHyphenPenalty |-> 0, adjacentLooseTightPenalty |-> 0]
    /\ error = "none"
    /\ initialMax = Fin(1)
    /\ b = 0
    /\ nodes = <<>>
    /\ active = {}
    /\ sumWidth = 0
    /\ sumStretch = 0
    /\ sumShrink = 0
    /\ minAbove = PosInf
    /\ output = <<>>
    /\ ratios = <<>>
    /\ fallbackNodes = {}
    /\ lastRemoved = 0
    /\ prevMax = <<>>
    /\ breakpoints = <<>>
    /\ includeGlue = FALSE
    /\ positions = <<>>
    /\ earlier = <<>>

\* justifyContent calls breakLines on the items tis, with the options
\* { maxAdjustmentRatio: 2.0 } (capped) or without options
JustifyBreakLines(tis, capped) ==
    /\ textItems' = tis
    /\ items' = ItemsOf(tis)
    /\ scale' = RangeScale(ItemsOf(tis))
    /\ opts' = [maxAdjustmentRatio |-> IF capped THEN Fin(2 * scale') ELSE Null,
                initialMaxAdjustmentRatio |-> Fin(1 * scale'),
                doubleHyphenPenalty |-> 0, adjacentLooseTightPenalty |-> 0]
    /\ initialMax' = Fin(1 * scale')
    /\ pc' = "call"
    /\ error' = "none"
    /\ prevMax' = <<>>
    /\ UNCHANGED <<justified, earlier, text, measureFn, hyphenateFn, lineLengths,
                   b, nodes, active, sumWidth, sumStretch, sumShrink, minAbove,
                   output, ratios, fallbackNodes, lastRemoved, breakpoints,
                   includeGlue, positions>>

\* justifyContent is entered: the changes of an earlier call are undone,
\* then the try block breaks the items without hyphenation
UndoAndTry ==
    /\ pc = "justify"
    /\ attempt' = 1
    /\ content' = unjustifyContent(content)
    /\ JustifyBreakLines(addItemsForNode(content', measureFn, Undefined), TRUE)

\* the catch block, for MaxAdjustmentExceededError: items with hyphenation,
\* default options
RetryWithHyphenation ==
    /\ pc = "threw"
    /\ attempt = 1
    /\ error = "MaxAdjustmentExceeded"
    /\ attempt' = 2
    /\ content' = content
    /\ JustifyBreakLines(addItemsForNode(content, measureFn, hyphenateFn), FALSE)

\* what the history keeps of a call that ended
Justification(ns, threw) ==
    [width |-> lineLengths.len, html |-> innerHTML(ns), threw |-> threw]

\* breakLines returned: the linebreaks are inserted, the spacing of the
\* lines is adjusted and justifyContent returns
InsertAndAdjust ==
    /\ pc = "returned"
    /\ attempt \in {1, 2}
    /\ ~InsertLineBreaks(content, textItems, output).threw
    /\ pc' = "justified"
    /\ breakpoints' = output
    /\ content' = Rendered(content, textItems, output, lineLengths.len)
    /\ justified' = Append(justified, Justification(content', FALSE))
    /\ UNCHANGED <<earlier, helperVars, scale, includeGlue, positions, ratios,
                   items, lineLengths, opts, error, initialMax, b, nodes, active,
                   sumWidth, sumStretch, sumShrink, minAbove, output,
                   fallbackNodes, lastRemoved, prevMax>>

\* breakLines returned with the finishing glue as a breakpoint: the
\* linebreaks are inserted up to the one that is appended to the
\* paragraph, where r.setStart(null, 0) throws
ThrowTypeError ==
    /\ pc = "returned"
    /\ attempt \in {1, 2}
    /\ InsertLineBreaks(content, textItems, output).threw
    /\ pc' = "failed"
    /\ error' = "TypeError"
    /\ breakpoints' = output
    /\ content' = Rendered(content, textItems, output, lineLengths.len)
    /\ justified' = Append(justified, Justification(content', TRUE))
    /\ UNCHANGED <<earlier, helperVars, scale, includeGlue, positions, ratios,
                   items, lineLengths, opts, initialMax, b, nodes, active,
                   sumWidth, sumStretch, sumShrink, minAbove, output,
                   fallbackNodes, lastRemoved, prevMax>>

\* the caller calls justifyContent on the paragraph again, at the same or
\* at another width
JustifyAgain ==
    /\ pc \in {"justified", "failed"}
    /\ Len(justified) < MaxJustifyCalls
    /\ pc' = "justify"
    /\ error' = "none"
    /\ attempt' = 0
    /\ \E w \in JustifyWidths : lineLengths' = Number(w)
    /\ UNCHANGED <<domVars, earlier, text, measureFn, hyphenateFn, textItems,
                   scale, breakpoints, includeGlue, positions, ratios, items,
                   opts, initialMax, b, nodes, active, sumWidth, sumStretch,
                   sumShrink, minAbove, output, fallbackNodes, lastRemoved,
                   prevMax>>

JustifyNext ==
    \/ UndoAndTry
    \/ Call
    \/ SkipItem
    \/ BreakStep
    \/ Retry
    \/ ThrowMaxAdjustmentExceeded
    \/ Fallback
    \/ Finish
    \/ RetryWithHyphenation
    \/ InsertAndAdjust
    \/ ThrowTypeError
    \/ JustifyAgain

JustifySpec == JustifyInit /\ [][JustifyNext]_vars

-----------------------------------------------------------------------------
(* Notions the claims are stated with *)

Returned == pc \in {"returned", "measured"}

\* breakLines has returned or thrown
Terminal == pc \in {"returned", "threw"}

\* the caller set a hard maxAdjustmentRatio
HardMax == opts.maxAdjustmentRatio # Null

\* no item has a negative width, no glue a negative stretch or shrink
NonNegative(its) ==
    \A i \in 1..Len(its) :
        /\ its[i].width >= 0
        /\ its[i].type = "glue" => (its[i].stretch >= 0 /\ its[i].shrink >= 0)

\* a paragraph that starts with a box and ends with a forced break
Paragraph(its) ==
    /\ Len(its) >= 2
    /\ its[1].type = "box"
    /\ isForcedBreak(its[Len(its)])

\* a well-formed paragraph ends with a finishing glue (width 0, no shrink)
\* followed by a forced break
WellFormed(its) ==
    /\ Len(its) >= 2
    /\ its[Len(its)] = forcedBreak
    /\ its[Len(its) - 1].type = "glue"
    /\ its[Len(its) - 1].width = 0
    /\ its[Len(its) - 1].shrink = 0
    /\ its[Len(its) - 1].stretch > 0

\* a legal breakpoint as the specification defines it
LegalBreakpoint(its, i) ==
    \/ /\ its[i + 1].type = "glue"
       /\ i > 0
       /\ its[i].type = "box"
    \/ /\ its[i + 1].type = "penalty"
       /\ its[i + 1].cost < MAX_COST

StrictlyIncreasing(s) == \A i \in 1..(Len(s) - 1) : s[i] < s[i + 1]

RECURSIVE ChainIds(_, _)
\* the nodes from the root to node ai, as indices into ns
ChainIds(ns, ai) ==
    IF ai = 0 THEN <<>> ELSE Append(ChainIds(ns, ns[ai].prev), ai)

\* the nodes of the returned breakpoints: ResultNodes[i] made output[i]
ResultNodes == ChainIds(nodes, FinalBest)

\* line l (0-based) of the result ends at a node the fallback created
FallbackLine(l) == ResultNodes[l + 2] \in fallbackNodes

-----------------------------------------------------------------------------
(* C1: for a well-formed item sequence the returned breakpoints start with *)
(* 0, are strictly increasing and end at the final forced break.           *)
C1_BreakpointsShape ==
    (Returned /\ WellFormed(items)) =>
        /\ output[1] = 0
        /\ StrictlyIncreasing(output)
        /\ output[Len(output)] = Len(items) - 1

\* C1, amended: the leading 0 may be repeated once, when items[0] is itself a
\* legal breakpoint that was taken; apart from that the breakpoints are
\* strictly increasing, start with 0 and end at the final forced break.
C1_BreakpointsShapeAmended ==
    (Returned /\ WellFormed(items)) =>
        /\ output[1] = 0
        /\ \A i \in 1..(Len(output) - 1) :
              \/ output[i] < output[i + 1]
              \/ /\ i = 1
                 /\ output[2] = 0
                 /\ items[1].type = "penalty"
                 /\ items[1].cost < MAX_COST
        /\ output[Len(output)] = Len(items) - 1

\* a well-formed paragraph was broken into at least two lines
C1_Witness ==
    /\ Returned
    /\ WellFormed(items)
    /\ Len(output) >= 3
    /\ output[2] > 0

-----------------------------------------------------------------------------
(* C2: every returned index after the leading 0 is a legal breakpoint: a   *)
(* glue that follows a box or a penalty with cost < MAX_COST.              *)
C2_LegalBreakpoints ==
    Returned => \A i \in 2..Len(output) : LegalBreakpoint(items, output[i])

\* a result that breaks at a glue in the middle of the paragraph
C2_Witness ==
    /\ Returned
    /\ \E i \in 2..(Len(output) - 1) : ItemOf(items, output[i]).type = "glue"

-----------------------------------------------------------------------------
(* C3: every ratio adjustmentRatios reports for a line of the result that  *)
(* the fallback did not produce lies in [-1, T], T the threshold of the    *)
(* pass that returned.                                                     *)
C3_RatiosWithinThreshold ==
    pc = "measured" =>
        \A l \in 1..Len(ratios) :
            ~FallbackLine(l - 1) =>
                /\ RGe(ratios[l], MIN_ADJUSTMENT_RATIO)
                /\ RLe(ratios[l], currentMaxAdjustmentRatio)

-----------------------------------------------------------------------------
(* The layouts breakLines chooses among, measured as adjustmentRatios       *)
(* measures a line, with the demerits of the feasibility branch.            *)

\* the breakpoint sequences from 0 to the last item of its that use legal
\* breakpoints only and take every forced break
Layouts(its) ==
    LET legal == {i \in 1..(Len(its) - 1) : LegalBreakpoint(its, i)}
        forced == {i \in legal : isForcedBreak(ItemOf(its, i))}
    IN { <<0>> \o SeqOfSet(S) :
            S \in {T \in SUBSET legal : forced \subseteq T /\ (Len(its) - 1) \in T} }

\* every line of bps has its ratio in [-1, threshold]
AllLinesWithin(bps, threshold) ==
    \A l \in 0..(Len(bps) - 2) :
        LET r == LineRatio(items, lineLengths, bps, l)
        IN RGe(r, MIN_ADJUSTMENT_RATIO) /\ RLe(r, threshold)

\* demerits of line l of bps, times scale^6
LineDemerits(bps, l) ==
    LET r == LineRatio(items, lineLengths, bps, l)
        item == ItemOf(items, bps[l + 2])
        prevItem == ItemOf(items, bps[l + 1])
        hyphens == IF /\ item.type = "penalty" /\ prevItem.type = "penalty"
                      /\ item.flagged /\ prevItem.flagged
                   THEN opts.doubleHyphenPenalty ELSE 0
        contrast == IF /\ l > 0
                       /\ Abs(Fitness(r)
                              - Fitness(LineRatio(items, lineLengths, bps, l - 1))) > 1
                    THEN opts.adjacentLooseTightPenalty ELSE 0
    IN BigAdd(BaseDemerits(r, item), BigDemerits(hyphens + contrast))

RECURSIVE TotalDemerits(_, _)
\* total demerits of the lines 0..l-1 of bps, times scale^6
TotalDemerits(bps, l) ==
    IF l = 0 THEN BigZero
    ELSE BigAdd(TotalDemerits(bps, l - 1), LineDemerits(bps, l - 1))

LayoutDemerits(bps) == TotalDemerits(bps, Len(bps) - 1)

-----------------------------------------------------------------------------
(* C4: the returned layout has the least total demerits among the layouts   *)
(* whose lines all have their ratio in [-1, T], T the threshold of the pass *)
(* that returned.  Stated for paragraphs that start with a box and results  *)
(* that are themselves such a layout.                                       *)
C4_GloballyOptimal ==
    ( /\ pc = "returned"
      /\ WellFormed(items)
      /\ items[1].type = "box"
      /\ AllLinesWithin(output, currentMaxAdjustmentRatio) ) =>
        \A bps \in Layouts(items) :
            AllLinesWithin(bps, currentMaxAdjustmentRatio) =>
                ~BigLess(LayoutDemerits(bps), LayoutDemerits(output))

-----------------------------------------------------------------------------
\* every layout of the paragraph has a line whose ratio is not <= m
NoLayoutWithin(m) ==
    \A bps \in Layouts(items) :
        \E l \in 0..(Len(bps) - 2) :
            ~RLe(LineRatio(items, lineLengths, bps, l), m)

\* the returned breakpoints contain one that the fallback branch created
ResultHasFallback ==
    \E k \in 1..Len(ResultNodes) : ResultNodes[k] \in fallbackNodes

-----------------------------------------------------------------------------
(* C6: with maxAdjustmentRatio null and non-negative items every call of    *)
(* breakLines on a non-empty or empty sequence ends by returning: it never  *)
(* raises and never loops or recurses forever.                              *)
C6_TerminatesAndReturns ==
    (pc = "call" /\ ~HardMax /\ NonNegative(items)) ~> (pc = "returned")

\* a call without hard maximum returned after raising the threshold twice
C6_Witness ==
    /\ pc = "returned"
    /\ ~HardMax
    /\ Len(prevMax) >= 2

-----------------------------------------------------------------------------
\* some box is wider than every line
OversizeBox ==
    \E i \in 1..Len(items) :
        /\ items[i].type = "box"
        /\ \A l \in 0..(Len(items) - 1) : items[i].width > lineLen(l)

\* some glue can neither stretch nor shrink
RigidGlue ==
    \E i \in 1..Len(items) :
        items[i].type = "glue" /\ items[i].stretch = 0 /\ items[i].shrink = 0

\* the running pass met a breakpoint that no line reaches and handled it
\* with the fallback breakpoint
HandledByFallback == (OversizeBox \/ RigidGlue) /\ fallbackNodes # {}

-----------------------------------------------------------------------------
\* the index (0-based) of the first item with a negative value
FirstNegative(its) ==
    CHOOSE i \in 0..(Len(its) - 1) :
        /\ ~NonNegative(<<its[i + 1]>>)
        /\ \A j \in 0..(i - 1) : NonNegative(<<its[j + 1]>>)

-----------------------------------------------------------------------------
\* 'does not lose the optimum when negative values are present'
NegativeValuesItems ==
    << Box(12), Glue(0, 2, 0), Box(-2), Glue(0, 0, 0), Box(9), Glue(0, 0, 3),
       forcedBreak >>

(* C9: breakLines accepts items with negative width, stretch or shrink: it  *)
(* never raises the invalid-item error, and for box 12, glue(0, shrink 2),  *)
(* box -2, glue(0), box 9, glue(0, stretch 3), forced break at line width   *)
(* 10 it returns [0, 3, 6].                                                 *)
C9_NegativeValuesAccepted ==
    /\ error # "InvalidItem"
    /\ (Terminal /\ items = NegativeValuesItems /\ lineLengths = Number(10)) =>
          (pc = "returned" /\ output = <<0, 3, 6>>)

-----------------------------------------------------------------------------
\* the values of a sequence
Range(s) == {s[i] : i \in 1..Len(s)}

(* C10: every forced break of the input is among the returned breakpoints,  *)
(* and the iteration that processes a forced break at index b leaves        *)
(* exactly one active node, located at b.                                   *)
C10_ForcedBreaksTaken ==
    /\ Returned =>
          \A i \in 0..(Len(items) - 1) :
              isForcedBreak(Item(i)) => i \in Range(output)
    /\ (pc = "loop" /\ b > 0 /\ isForcedBreak(Item(b - 1))) =>
          /\ Cardinality(active) = 1
          /\ \A ai \in active : nodes[ai].index = b - 1

\* a result with a forced break in the middle of the paragraph, reached
\* while an earlier breakpoint was still active
C10_Witness ==
    /\ Returned
    /\ Len(items) >= 3
    /\ items[1].type = "box"
    /\ \E k \in 2..(Len(output) - 1) :
          /\ isForcedBreak(Item(output[k]))
          /\ \E j \in 2..(k - 1) : output[j] < output[k]

-----------------------------------------------------------------------------
\* no item of its is a legal breakpoint
NoLegalBreakpoint(its) ==
    \A i \in 0..(Len(its) - 1) : ~LegalBreakpoint(its, i)

-----------------------------------------------------------------------------
\* every glue has a stretch and a shrink that are not negative
ValidGlue(its) ==
    \A i \in 1..Len(its) :
        its[i].type = "glue" => (its[i].stretch >= 0 /\ its[i].shrink >= 0)

RECURSIVE LeastAdvance(_, _, _)
\* the least xOffset may advance over items[p..q] inside a line: the width of
\* each box and width - shrink of each glue
LeastAdvance(its, p, q) ==
    IF p > q THEN 0
    ELSE LET item == ItemOf(its, p)
         IN (CASE item.type = "box" -> item.width
               [] item.type = "glue" -> item.width - item.shrink
               [] OTHER -> 0)
            + LeastAdvance(its, p + 1, q)

\* the ratio adjustmentRatios reports for line l of the positioned breakpoints
PositionedRatio(l) == LineRatio(items, lineLengths, breakpoints, l)

-----------------------------------------------------------------------------
RECURSIVE LineExtent(_, _, _)
\* the sum of the widths positionItems emitted for line l in pos[k..], glue
\* included
LineExtent(pos, l, k) ==
    IF k > Len(pos) THEN Num(0)
    ELSE IF pos[k].line = l THEN RPlus(pos[k].width, LineExtent(pos, l, k + 1))
    ELSE LineExtent(pos, l, k + 1)

(* C13: for breakpoints returned by breakLines, positionItems lays out      *)
(* every line exactly justified, except the lines that exceed their ideal   *)
(* width because of the fallback breakpoint: the widths of the boxes, the   *)
(* adjusted glue and the line-ending penalty of the line add up to          *)
(* lineLen(line).  Stated for well-formed paragraphs of valid items that    *)
(* start with a box and for results without any fallback breakpoint, where  *)
(* the exception applies to no line.                                        *)
C13_ExactlyJustified ==
    ( /\ pc = "positioned" /\ breakpoints = output /\ includeGlue
      /\ WellFormed(items) /\ NonNegative(items) /\ items[1].type = "box"
      /\ ~ResultHasFallback ) =>
        \A l \in 0..(Len(breakpoints) - 2) :
            LineExtent(positions, l, 1) = Num(lineLen(l))

-----------------------------------------------------------------------------
\* the items layoutItemsFromString returned, without the last two
Body == SubSeq(textItems, 1, Len(textItems) - 2)

IsBox(ti) == ti.item.type = "box"
IsGlue(ti) == ti.item.type = "glue"
IsPenalty(ti) == ti.item.type = "penalty"
IsBoxOrGlue(ti) == ti.item.type \in {"box", "glue"}

\* the positions of s where a run of whitespace starts (space = TRUE) or a
\* run of other characters starts
RunStarts(s, space) ==
    {i \in 1..Len(s) :
        /\ IsSpaceChar(s[i]) = space
        /\ i = 1 \/ IsSpaceChar(s[i - 1]) # space}

\* the run of s that starts at i: it ends before the next start of a run
RunAt(s, i) ==
    LET later == {j \in RunStarts(s, TRUE) \cup RunStarts(s, FALSE) : j > i}
    IN SubSeq(s, i, IF later = {} THEN Len(s)
                    ELSE (CHOOSE j \in later : \A k \in later : j <= k) - 1)

\* the runs of s, whitespace and tokens, in input order
Runs(s) ==
    LET starts == SeqOfSet(RunStarts(s, TRUE) \cup RunStarts(s, FALSE))
    IN [k \in 1..Len(starts) |-> RunAt(s, starts[k])]

\* the array ends with the finishing glue and the forced break
EndsParagraph ==
    /\ Len(textItems) >= 2
    /\ textItems[Len(textItems) - 1].item = Glue(0, 0, MAX_COST)
    /\ textItems[Len(textItems)].item = Penalty(0, MIN_COST, FALSE)

(* C14: for every string, measuring callback and optional hyphenating       *)
(* callback, the array layoutItemsFromString returns ends with a glue of    *)
(* width 0, shrink 0 and stretch MAX_COST followed by a forced break        *)
(* (cost MIN_COST, width 0, not flagged), and before them holds one glue    *)
(* per run of whitespace and one box per token, in input order.             *)
C14_EndingAndOneItemPerRun ==
    pc = "items" =>
        /\ EndsParagraph
        /\ Len(SelectSeq(Body, IsGlue)) = Cardinality(RunStarts(text, TRUE))
        /\ Len(SelectSeq(Body, IsBox)) = Cardinality(RunStarts(text, FALSE))
        /\ LET made == SelectSeq(Body, IsBoxOrGlue)
           IN [k \in 1..Len(made) |-> made[k].text] = Runs(text)

RECURSIVE FragmentsOf(_, _, _)
\* the fragments the hyphenating callback h returns for the tokens among
\* runs[k..], in order; the tokens themselves without callback
FragmentsOf(h, runs, k) ==
    IF k > Len(runs) THEN <<>>
    ELSE (IF IsSpaceChar(runs[k][1]) THEN <<>>
          ELSE IF h = Undefined THEN <<runs[k]>>
          ELSE Hyphenate(h, runs[k]))
         \o FragmentsOf(h, runs, k + 1)

\* C14, amended: the array ends with the finishing glue and the forced
\* break, and before them holds one glue per run of whitespace, in input
\* order; it holds one box per token, with the runs in input order, when no
\* hyphenating callback is given, and one box per fragment that the callback
\* returns otherwise.
C14_EndingAndOneItemPerRunOrFragment ==
    pc = "items" =>
        /\ EndsParagraph
        /\ LET glues == SelectSeq(Body, IsGlue)
           IN [k \in 1..Len(glues) |-> glues[k].text]
              = SelectSeq(Runs(text), isSpace)
        /\ hyphenateFn = Undefined =>
              LET made == SelectSeq(Body, IsBoxOrGlue)
              IN /\ made = Body
                 /\ [k \in 1..Len(made) |-> made[k].text] = Runs(text)
        /\ hyphenateFn # Undefined =>
              LET boxes == SelectSeq(Body, IsBox)
              IN [k \in 1..Len(boxes) |-> boxes[k].text]
                 = FragmentsOf(hyphenateFn, Runs(text), 1)

\* items were made, without hyphenating callback, for a string with two
\* tokens separated by a run of several whitespace characters
C14_Witness ==
    /\ pc = "items"
    /\ hyphenateFn = Undefined
    /\ Cardinality(RunStarts(text, FALSE)) >= 2
    /\ \E k \in 1..Len(Body) : IsGlue(Body[k]) /\ Len(Body[k].text) >= 2

-----------------------------------------------------------------------------
RECURSIVE HyphenationPoints(_, _, _)
\* the number of places between two consecutive fragments of a token, over
\* the tokens among runs[k..]
HyphenationPoints(h, runs, k) ==
    IF k > Len(runs) THEN 0
    ELSE (IF IsSpaceChar(runs[k][1]) \/ Len(Hyphenate(h, runs[k])) = 0 THEN 0
          ELSE Len(Hyphenate(h, runs[k])) - 1)
         + HyphenationPoints(h, runs, k + 1)

(* C15: with a hyphenating callback, layoutItemsFromString emits for each   *)
(* word the boxes of its fragments in order, with exactly one penalty       *)
(* (width measure('-'), cost 10, flagged) between two consecutive fragments *)
(* of a word and none after the last fragment; a penalty other than the     *)
(* final forced break stands between two boxes.                             *)
C15_PenaltiesBetweenFragments ==
    (pc = "items" /\ hyphenateFn # Undefined) =>
        /\ LET boxes == SelectSeq(Body, IsBox)
           IN [k \in 1..Len(boxes) |-> boxes[k].text]
              = FragmentsOf(hyphenateFn, Runs(text), 1)
        /\ Len(SelectSeq(Body, IsPenalty))
           = HyphenationPoints(hyphenateFn, Runs(text), 1)
        /\ \A k \in 1..Len(Body) :
              /\ IsPenalty(Body[k]) =>
                    /\ Body[k].item = Penalty(Measure(measureFn, <<"-">>), 10, TRUE)
                    /\ k > 1 /\ k < Len(Body)
                    /\ IsBox(Body[k - 1]) /\ IsBox(Body[k + 1])
              /\ (IsBox(Body[k]) /\ k < Len(Body)) => ~IsBox(Body[k + 1])

\* items were made for a word of three fragments or more that is followed
\* by whitespace and another word
C15_Witness ==
    /\ pc = "items"
    /\ hyphenateFn # Undefined
    /\ \E k \in 1..(Len(Body) - 6) :
          /\ IsBox(Body[k]) /\ IsPenalty(Body[k + 1]) /\ IsBox(Body[k + 2])
          /\ IsPenalty(Body[k + 3]) /\ IsBox(Body[k + 4])
          /\ IsGlue(Body[k + 5]) /\ IsBox(Body[k + 6])

-----------------------------------------------------------------------------
\* layoutText is in its first attempt: items without hyphenation, broken
\* under maxAdjustmentRatio 1
FirstAttempt ==
    /\ textItems = layoutItemsFromString(text, measureFn, Undefined)
    /\ items = ItemsOf(textItems)
    /\ opts.maxAdjustmentRatio = Num(1)

\* layoutText is in its second attempt: items with hyphenation, broken
\* without maximum
SecondAttempt ==
    /\ textItems = layoutItemsFromString(text, measureFn, hyphenateFn)
    /\ items = ItemsOf(textItems)
    /\ opts.maxAdjustmentRatio = Null

\* what holds in every state of a call of layoutText
TwoStageState ==
    /\ attempt = 1 => FirstAttempt
    /\ attempt = 2 => SecondAttempt
    /\ pc = "failed" => error # "MaxAdjustmentExceeded"
    /\ pc = "done" =>
          /\ breakpoints = output
          /\ output = Chain(nodes, FinalBest)
          /\ \A k \in 1..Len(breakpoints) : breakpoints[k] < Len(textItems)
          /\ positions = positionItems(ItemsOf(textItems), lineLengths,
                                       breakpoints, FALSE)

\* what holds of every step of a call of layoutText
TwoStageStep ==
    /\ (attempt' = 1 /\ attempt # 1) => pc = "layoutText"
    /\ (attempt' = 2 /\ attempt # 2) =>
          (attempt = 1 /\ pc = "threw" /\ error = "MaxAdjustmentExceeded")
    /\ (pc = "threw" /\ ~(attempt = 1 /\ error = "MaxAdjustmentExceeded")) =>
          (pc' = "failed" /\ error' = error)
    /\ pc' = "done" => (pc = "returned" /\ attempt' = attempt)

(* C16: layoutText first lays out the text without hyphenation under        *)
(* maxAdjustmentRatio 1; only when that attempt raises                      *)
(* MaxAdjustmentExceededError does it build the items with the hyphenating  *)
(* callback and break them without maximum; any other error leaves          *)
(* layoutText.  layoutText never raises MaxAdjustmentExceededError, and the *)
(* items, breakpoints and positions it returns are those of one attempt.    *)
C16_TwoStageProtocol == []TwoStageState /\ [][TwoStageStep]_vars

\* layoutText returned from its second attempt, with hyphenated items laid
\* out after the threshold was raised
C16_Witness ==
    /\ pc = "done"
    /\ attempt = 2
    /\ \E k \in 1..Len(textItems) :
          textItems[k].item.type = "penalty" /\ textItems[k].item.flagged
    /\ Len(prevMax) >= 1
    /\ Len(positions) >= 2


-----------------------------------------------------------------------------
(* The line that a node of the running call stands for, measured again     *)
(* from the items before its breakpoint.                                   *)

RECURSIVE SumBefore(_, _, _)
\* sumWidth (f = "width"), sumStretch or sumShrink when the loop reaches
\* its[i]
SumBefore(its, f, i) ==
    IF i = 0 THEN 0
    ELSE LET item == ItemOf(its, i - 1)
         IN SumBefore(its, f, i - 1)
            + (CASE f = "width" ->
                      IF item.type \in {"box", "glue"} THEN item.width ELSE 0
                 [] f = "stretch" ->
                      IF item.type = "glue" THEN item.stretch ELSE 0
                 [] OTHER -> IF item.type = "glue" THEN item.shrink ELSE 0)

\* adjustmentRatio of the line from node a to items[i]
NodeRatio(a, i) ==
    LET item == Item(i)
        lineShrink == SumBefore(items, "shrink", i) - a.totalShrink
        lineStretch == SumBefore(items, "stretch", i) - a.totalStretch
        idealLen == lineLen(a.line)
        actualLen == SumBefore(items, "width", i) - a.totalWidth
                     + (IF item.type = "penalty" THEN item.width ELSE 0)
    IN IF actualLen < idealLen
       THEN Quot(idealLen - actualLen, lineStretch)
       ELSE Quot(idealLen - actualLen, lineShrink)

\* items[i] is a penalty with flagged: true
FlaggedPenalty(i) == Item(i).type = "penalty" /\ Item(i).flagged

\* the nodes of the running call that the feasibility branch created
FeasibleNodes == (2..Len(nodes)) \ fallbackNodes

\* demerits of node ni less those of its predecessor and less hyphens
\* for two hyphens in a row: nothing is left over
DemeritsWithHyphens(ni, hyphens) ==
    LET n == nodes[ni]
        a == nodes[n.prev]
        r == NodeRatio(a, n.index)
    IN n.totalDemerits =
         BigAdd(a.totalDemerits,
                BigAdd(BaseDemerits(r, Item(n.index)),
                       BigDemerits(hyphens + FitnessPenalty(a, n.fitness))))

\* the running call ended as the earlier call e did
SameOutcome(e) == pc = e.pc /\ error = e.error /\ output = e.output

-----------------------------------------------------------------------------
(* C17: the demerits of the line from node a to items[b] include           *)
(* doubleHyphenPenalty exactly when items[b] and items[a.index] are both   *)
(* flagged penalties; and with doubleHyphenPenalty = 0 a call ends as the  *)
(* call on the same items with other flagged fields did.                   *)
C17_DoubleHyphenPenalty ==
    /\ \A ni \in FeasibleNodes :
          DemeritsWithHyphens(ni,
              IF FlaggedPenalty(nodes[ni].index)
                 /\ FlaggedPenalty(nodes[nodes[ni].prev].index)
              THEN opts.doubleHyphenPenalty ELSE 0)
    /\ \A k \in 1..Len(earlier) :
          ( /\ pc \in {"returned", "threw"}
            /\ opts.doubleHyphenPenalty = 0
            /\ earlier[k].opts = opts
            /\ ClearFlags(earlier[k].items) = ClearFlags(items) ) =>
                SameOutcome(earlier[k])

\* three calls on the paragraph with two hyphens: with the penalty the
\* result avoids the two hyphens in a row, without it the result has them,
\* and with the flags cleared the result is the same
C17_Witness ==
    /\ pc = "returned"
    /\ Len(earlier) = 2
    /\ earlier[1].opts.doubleHyphenPenalty = 200
    /\ earlier[2].opts = opts
    /\ opts.doubleHyphenPenalty = 0
    /\ earlier[2].items = earlier[1].items
    /\ earlier[2].items # items
    /\ earlier[1].output # earlier[2].output
    /\ output = earlier[2].output
    /\ \E l \in 2..Len(output) :
          LET it == earlier[2].items
          IN /\ it[output[l - 1] + 1].type = "penalty"
             /\ it[output[l - 1] + 1].flagged
             /\ it[output[l] + 1].type = "penalty"
             /\ it[output[l] + 1].flagged


-----------------------------------------------------------------------------
(* The hyphens a call of justifyContent leaves in the paragraph.           *)

\* the hyphens in the characters s
Hyphens(s) == Cardinality({i \in 1..Len(s) : s[i] = "-"})

\* the characters s without the hyphens
SelectSeq_NotHyphen(c) == c # "-"
WithoutHyphens(s) == SelectSeq(s, SelectSeq_NotHyphen)

\* the lines of the latest result of breakLines that end at a flagged
\* penalty
HyphenatedLines ==
    {l \in 0..(Len(output) - 2) :
        LET breakItem == BreakItem(textItems, output, l + 1).item
        IN breakItem.type = "penalty" /\ breakItem.flagged}

-----------------------------------------------------------------------------
(* C18: a call of justifyContent at the width of the call before it leaves *)
(* the innerHTML of the paragraph as that call left it; and when a call    *)
(* ends, the text of the paragraph is the text it was created with, with   *)
(* one hyphen for each line of this call that ends at a hyphenation point  *)
(* (none when the call threw): hyphens of earlier calls are gone.          *)
C18_JustifyIdempotent ==
    /\ \A k \in 2..Len(justified) :
          justified[k].width = justified[k - 1].width =>
              /\ justified[k].html = justified[k - 1].html
              /\ justified[k].threw = justified[k - 1].threw
    /\ pc \in {"justified", "failed"} =>
          /\ WithoutHyphens(textContent(content)) = text
          /\ Hyphens(textContent(content)) =
                IF pc = "justified" THEN Cardinality(HyphenatedLines) ELSE 0

\* three calls: the first inserts a hyphen, the second at the same width
\* leaves the same content, the third at a greater width removes the hyphen
C18_Witness ==
    /\ pc = "justified"
    /\ Len(justified) = 3
    /\ justified[1].width = justified[2].width
    /\ justified[2].width < justified[3].width
    /\ \E i \in 1..Len(justified[2].html) : justified[2].html[i].char = "-"
    /\ \E i \in 1..Len(justified[2].html) : justified[2].html[i].tag = "<br>"
    /\ \A i \in 1..Len(justified[3].html) : justified[3].html[i].char # "-"
    /\ textContent(content) = text


-----------------------------------------------------------------------------
(* The steps of one pass, as the claims name them.                         *)

\* the step leaves the pass: it throws, or it recurses
LeavesPass == pc' = "threw" \/ Len(prevMax') > Len(prevMax)

\* the step is an iteration that ends at `continue`
SkipsItem == ~canBreak /\ b' = b + 1 /\ active' = active /\ nodes' = nodes

\* the step is an iteration in which the fallback branch ran
FallbackRan == pc' = "loop" /\ fallbackNodes' # fallbackNodes /\ b' = b + 1

\* the active set is not empty where the loop reads it
ActiveNotEmpty ==
    /\ pc = "loop" => active # {}
    /\ (pc = "returned" /\ items # <<>>) => active # {}

\* an iteration of the loop
LoopIteration ==
    (pc = "loop" /\ b < Len(items)) =>
        /\ LeavesPass \/ SkipsItem \/ (pc' = "loop" /\ active' # {})
        /\ FallbackRan =>
              /\ lastRemoved' # 0
              /\ lastRemoved' \in active
              /\ lastRemoved' \notin active'
              /\ nodes'[Len(nodes')].prev = lastRemoved'

-----------------------------------------------------------------------------
(* C19: within one pass the active set is non-empty at the start of every  *)
(* iteration and when the loop ends; an iteration leaves the pass, skips   *)
(* the item with the active set unchanged, or ends with a non-empty active *)
(* set; and when the fallback branch runs, lastActive is a node that the   *)
(* same iteration removed from the active set.                             *)
C19_ActiveSetNeverEmpty == []ActiveNotEmpty /\ [][LoopIteration]_vars

\* the fallback branch has just run: the only active node is the fallback
\* node, which follows the node removed last
C19_Witness ==
    /\ pc = "loop"
    /\ b > 0
    /\ fallbackNodes # {}
    /\ active = {Len(nodes)}
    /\ Len(nodes) \in fallbackNodes
    /\ lastRemoved # 0
    /\ nodes[Len(nodes)].prev = lastRemoved


-----------------------------------------------------------------------------
(* The pairs (active node, breakpoint) that the running pass examined,     *)
(* found again from the nodes it created.                                  *)

\* the forEach at items[j] deletes the node ai
DeletedAt(ai, j) ==
    \/ RLt(NodeRatio(nodes[ai], j), MIN_ADJUSTMENT_RATIO)
    \/ isForcedBreak(Item(j))

\* the node ai is in the active set when the loop reaches the breakpoint
\* items[i]: it was added before and no breakpoint since has deleted it
ActiveAt(ai, i) ==
    LET first == IF ai = 1 THEN 0 ELSE nodes[ai].index + 1
    IN /\ first <= i
       /\ \A j \in first..(i - 1) : CanBreakAt(items, j) => ~DeletedAt(ai, j)

\* the ratios of the pairs examined at the breakpoints before items[n]
ExaminedRatios(n) ==
    { NodeRatio(nodes[ai], i) :
        <<ai, i>> \in { p \in (1..Len(nodes)) \X (0..(n - 1)) :
                          CanBreakAt(items, p[2]) /\ ActiveAt(p[1], p[2]) } }

\* the smallest of the ratios S above the threshold, Infinity without one
SmallestAbove(S, threshold) ==
    LET above == {r \in S : RGt(r, threshold)} \cup {PosInf}
    IN CHOOSE r \in above : \A q \in above : RLe(r, q)

\* the thresholds of the passes so far, the running one last
Thresholds == Append(prevMax, currentMaxAdjustmentRatio)

\* the state of a pass
ThresholdState ==
    /\ \A i \in 1..(Len(Thresholds) - 1) : RLt(Thresholds[i], Thresholds[i + 1])
    /\ HardMax =>
          \A i \in 1..Len(Thresholds) : RLe(Thresholds[i], opts.maxAdjustmentRatio)
    /\ pc = "loop" =>
          minAbove = SmallestAbove(ExaminedRatios(b), currentMaxAdjustmentRatio)
    /\ (pc = "threw" /\ error = "MaxAdjustmentExceeded") =>
          HardMax /\ currentMaxAdjustmentRatio = opts.maxAdjustmentRatio
    /\ Len(prevMax) < MaxPasses

\* a step that recurses
RetryStep ==
    Len(prevMax') > Len(prevMax) =>
        LET m == SmallestAbove(ExaminedRatios(b + 1), currentMaxAdjustmentRatio)
        IN /\ prevMax' = Append(prevMax, currentMaxAdjustmentRatio)
           /\ IsFinite(m)
           /\ initialMax' = m
           /\ currentMaxAdjustmentRatio' =
                 IF HardMax THEN RMin(opts.maxAdjustmentRatio, m) ELSE m
           /\ RGt(currentMaxAdjustmentRatio', currentMaxAdjustmentRatio)

-----------------------------------------------------------------------------
(* C20: a retry runs with a threshold strictly greater than that of the    *)
(* pass that failed and never greater than maxAdjustmentRatio: it is       *)
(* min(maxAdjustmentRatio, m), m the smallest ratio above the failed       *)
(* threshold over the pairs (active node, breakpoint) the failed pass      *)
(* examined; MaxAdjustmentExceededError is raised only from a pass whose   *)
(* threshold equals maxAdjustmentRatio; the passes stay below MaxPasses.   *)
C20_RetryThresholds == []ThresholdState /\ [][RetryStep]_vars

\* a retry capped by maxAdjustmentRatio: m was greater
C20_Witness ==
    /\ pc = "loop"
    /\ Len(prevMax) >= 1
    /\ HardMax
    /\ currentMaxAdjustmentRatio = opts.maxAdjustmentRatio
    /\ RLt(opts.maxAdjustmentRatio, initialMax)

-----------------------------------------------------------------------------
(* The totals a node stores, compared with the running sums at the first   *)
(* box after its breakpoint.                                               *)

RECURSIVE NextBox(_, _)
\* the index of the first box or penalty of cost >= MAX_COST at or after
\* its[bp], Len(its) without one: where the scan for widthToNextBox stops
NextBox(its, bp) ==
    IF bp >= Len(its) THEN Len(its)
    ELSE LET item == ItemOf(its, bp)
         IN IF \/ item.type = "box"
               \/ item.type = "penalty" /\ item.cost >= MAX_COST
            THEN bp
            ELSE NextBox(its, bp + 1)

\* the node n stores the running sums of the iteration at the first box or
\* forbidden break after its breakpoint
TotalsToNextBox(n) ==
    LET j == NextBox(items, n.index + 1)
    IN /\ n.totalWidth = SumBefore(items, "width", j)
       /\ n.totalStretch = SumBefore(items, "stretch", j)
       /\ n.totalShrink = SumBefore(items, "shrink", j)

-----------------------------------------------------------------------------
(* C21: every node put into the active set for a break at items[b], by the *)
(* feasibility branch or by the fallback, stores totalWidth, totalStretch  *)
(* and totalShrink equal to the cumulative sums up to the first box or     *)
(* penalty of cost >= MAX_COST strictly after b.  Stated for well-formed    *)
(* paragraphs of valid items that start with a box.                        *)
C21_TotalsUpToNextBox ==
    ( /\ pc = "loop"
      /\ NonNegative(items) /\ WellFormed(items) /\ Paragraph(items) ) =>
        \A ai \in active \ {1} : TotalsToNextBox(nodes[ai])

-----------------------------------------------------------------------------
(* A candidate line that is not shorter than the ideal length and has no    *)
(* shrink, measured from the items.                                        *)

\* the natural length of the line from node a to items[i]
ActualLen(a, i) ==
    SumBefore(items, "width", i) - a.totalWidth
    + (IF Item(i).type = "penalty" THEN Item(i).width ELSE 0)

\* the line from node a to items[i] has actualLen >= idealLen and
\* lineShrink = 0
OverfullRigid(a, i) ==
    /\ ActualLen(a, i) >= lineLen(a.line)
    /\ SumBefore(items, "shrink", i) - a.totalShrink = 0

\* an iteration at the legal breakpoint items[b] that goes on to the next
\* item: every active node with such a line has the ratio -Infinity, leaves
\* the active set, and the node the feasibility branch adds does not come
\* from it
OverfullRigidStep ==
    ( /\ pc = "loop" /\ pc' = "loop" /\ b' = b + 1
      /\ CanBreakAt(items, b)
      /\ NonNegative(items) /\ WellFormed(items) /\ Paragraph(items) ) =>
        \A ai \in active :
            OverfullRigid(nodes[ai], b) =>
                /\ NodeRatio(nodes[ai], b) = NegInf
                /\ ai \notin active'
                /\ \A ni \in ((Len(nodes) + 1)..Len(nodes')) \ fallbackNodes' :
                       nodes'[ni].prev # ai

-----------------------------------------------------------------------------
(* C22: a candidate line from active node a to breakpoint b with           *)
(* actualLen >= idealLen and lineShrink = 0 has the adjustment ratio       *)
(* -Infinity, also when actualLen = idealLen; a is removed from the active *)
(* set at b and no feasible node is created from it.  Stated for           *)
(* well-formed paragraphs of valid items that start with a box.            *)
C22_OverfullRigidRemoved == [][OverfullRigidStep]_vars

-----------------------------------------------------------------------------
(* Pruning: what the removal of an active node gives up.                   *)

\* the line from node a to items[i] is not too long: its ratio is at least
\* MIN_ADJUSTMENT_RATIO
NotTooLong(a, i) == RGe(NodeRatio(a, i), MIN_ADJUSTMENT_RATIO)

\* an iteration at a breakpoint that is not a forced break and goes on to
\* the next item: the line from a node it removes to any later legal
\* breakpoint is too long as well
PruningStep ==
    ( /\ pc = "loop" /\ pc' = "loop" /\ b' = b + 1
      /\ CanBreakAt(items, b) /\ ~isForcedBreak(Item(b))
      /\ NonNegative(items) ) =>
        \A ai \in active \ active' :
            /\ RLt(NodeRatio(nodes[ai], b), MIN_ADJUSTMENT_RATIO)
            /\ \A i \in (b + 1)..(Len(items) - 1) :
                   CanBreakAt(items, i) => ~NotTooLong(nodes[ai], i)

-----------------------------------------------------------------------------
(* C23: for valid items, when an active node a is removed at a breakpoint  *)
(* b that is not a forced break, the line from a to every later legal      *)
(* breakpoint is too long as well (its ratio is not >= -1), so that no     *)
(* feasible line is lost by removing a.                                    *)
C23_PruningSound == [][PruningStep]_vars

-----------------------------------------------------------------------------
(* The ratio of a line of the result as the pass that returned computed    *)
(* it, next to the ratio adjustmentRatios returns for the line.            *)

\* adjustmentRatio of line l (0-based) of the result in the forEach that
\* created the node of its end
OptimizerRatio(l) ==
    NodeRatio(nodes[ResultNodes[l + 1]], nodes[ResultNodes[l + 2]].index)

-----------------------------------------------------------------------------
(* C24: for every line of a result of breakLines that ends at a node of    *)
(* the feasibility branch, the ratio breakLines computed for the line      *)
(* equals the ratio adjustmentRatios returns for it.  Stated for           *)
(* well-formed paragraphs of valid items that start with a box, and for    *)
(* lines that also start at a node of the feasibility branch (or at the    *)
(* initial node).                                                          *)
C24_OptimizerAgreesWithRatios ==
    ( /\ pc = "measured"
      /\ NonNegative(items) /\ WellFormed(items) /\ Paragraph(items) ) =>
        \A l \in 0..(Len(output) - 2) :
            ( /\ ~FallbackLine(l)
              /\ ResultNodes[l + 1] \notin fallbackNodes ) =>
                OptimizerRatio(l) = ratios[l + 1]

-----------------------------------------------------------------------------
(* The node an iteration adds, chosen again from the active nodes and the  *)
(* items.                                                                  *)

\* the active nodes from which the line to items[i] has its ratio in
\* [MIN_ADJUSTMENT_RATIO, currentMaxAdjustmentRatio]
Candidates(S, i) ==
    {ai \in S : /\ RGe(NodeRatio(nodes[ai], i), MIN_ADJUSTMENT_RATIO)
                /\ RLe(NodeRatio(nodes[ai], i), currentMaxAdjustmentRatio)}

\* totalDemerits of the node pushed to `feasible` for the active node ai at
\* items[i], times scale^6
CandidateDemerits(ai, i) ==
    LET a == nodes[ai]
        r == NodeRatio(a, i)
    IN BigAdd(a.totalDemerits,
              BigAdd(BaseDemerits(r, Item(i)),
                     BigDemerits(DoubleHyphenPenalty(a, Item(i))
                                 + FitnessPenalty(a, Fitness(r)))))

\* n comes from the candidate of least totalDemerits among S, the first in
\* the order of the active set on a tie
LeastOfCandidates(n, S, i) ==
    /\ n.index = i
    /\ n.prev \in S
    /\ n.totalDemerits = CandidateDemerits(n.prev, i)
    /\ \A aj \in S :
          /\ aj < n.prev => BigLess(n.totalDemerits, CandidateDemerits(aj, i))
          /\ aj > n.prev => ~BigLess(CandidateDemerits(aj, i), n.totalDemerits)

\* an iteration that goes on to the next item adds at most one node, and
\* only at a legal breakpoint: the least of the feasible nodes, else the
\* fallback node if the active set ran empty, else none
AddsOneNode ==
    ( pc = "loop" /\ pc' = "loop" /\ b' = b + 1 ) =>
        LET new == Len(nodes) + 1
            cands == Candidates(active, b)
        IN /\ SubSeq(nodes', 1, Len(nodes)) = nodes
           /\ active' \ active \subseteq {new}
           /\ IF ~CanBreakAt(items, b)
              THEN nodes' = nodes /\ active' = active
              ELSE IF cands # {}
              THEN /\ Len(nodes') = new
                   /\ new \in active' \ fallbackNodes'
                   /\ LeastOfCandidates(nodes'[new], cands, b)
              ELSE IF active' \cap active = {}
              THEN /\ Len(nodes') = new
                   /\ active' = {new}
                   /\ new \in fallbackNodes'
                   /\ nodes'[new].index = b
              ELSE nodes' = nodes

\* the nodes a pass created were created at increasing item indices
OneNodePerIndex ==
    pc = "loop" =>
        /\ \A ai \in 2..(Len(nodes) - 1) : nodes[ai].index < nodes[ai + 1].index
        /\ \A ai \in active \ {1} : nodes[ai].index < b
        /\ active \subseteq 1..Len(nodes)

-----------------------------------------------------------------------------
(* C25: for each legal breakpoint b a pass adds at most one node to the    *)
(* active set: of the feasible nodes generated at b the one with the       *)
(* smallest totalDemerits (the first generated on a tie), or the fallback  *)
(* node when none is feasible and the active set is empty; no two nodes    *)
(* the loop created have the same item index.                              *)
C25_OneNodePerBreakpoint == []OneNodePerIndex /\ [][AddsOneNode]_vars

\* the node of the latest iteration was chosen among two feasible nodes of
\* different totalDemerits, and not from the first of them
C25_Witness ==
    /\ pc = "loop"
    /\ Len(nodes) >= 3
    /\ Len(nodes) \notin fallbackNodes
    /\ LET n == nodes[Len(nodes)]
           cands == Candidates({ai \in 1..(Len(nodes) - 1) : ActiveAt(ai, n.index)},
                               n.index)
       IN /\ n.index = b - 1
          /\ \E ai \in cands :
                /\ ai < n.prev
                /\ CandidateDemerits(ai, n.index) # n.totalDemerits

-----------------------------------------------------------------------------
(* The fallback, followed from the state before the iteration.             *)

\* the active nodes the forEach at items[i] deletes, found from the items
DeletedFrom(S, i) == {ai \in S : DeletedAt(ai, i)}

\* the iteration at items[b] leaves the active set empty and the pass has
\* recorded no finite ratio above its threshold
EmptiedForGood ==
    /\ pc = "loop" /\ b < Len(items)
    /\ ~InvalidItem(Item(b))
    /\ CanBreakAt(items, b)
    /\ DeletedFrom(active, b) = active
    /\ Candidates(active, b) = {}
    /\ ~IsFinite(SmallestAbove(ExaminedRatios(b + 1), currentMaxAdjustmentRatio))

\* the iteration then adds one node at b that continues the node removed
\* last, which becomes the whole active set
InjectsNode ==
    EmptiedForGood =>
        LET la == SetMax(DeletedFrom(active, b))
            new == Len(nodes) + 1
        IN /\ pc' = "loop" /\ b' = b + 1
           /\ Len(nodes') = new
           /\ SubSeq(nodes', 1, Len(nodes)) = nodes
           /\ active' = {new}
           /\ nodes'[new].index = b
           /\ nodes'[new].line = nodes[la].line + 1
           /\ nodes'[new].prev = la
           /\ nodes'[new].totalDemerits =
                 BigAdd(nodes[la].totalDemerits, BigDemerits(FALLBACK_DEMERITS))

\* the breakpoints of the fallback nodes of the pass that returned are in
\* the result
FallbackBreaksReturned ==
    pc = "returned" =>
        \A f \in fallbackNodes : \E k \in 1..Len(output) : output[k] = nodes[f].index

-----------------------------------------------------------------------------
(* C26: when the active set is empty after the iteration at breakpoint b   *)
(* and the pass has recorded no finite ratio above its threshold,          *)
(* breakLines adds a single node at b with line = lastActive.line + 1,     *)
(* prev = lastActive and totalDemerits = lastActive.totalDemerits + 1000,  *)
(* lastActive being the node removed last at b; the breakpoints a call     *)
(* returns contain b.                                                      *)
C26_FallbackNode == []FallbackBreaksReturned /\ [][InjectsNode]_vars

\* a result with a fallback breakpoint where two active nodes on different
\* lines were removed
C26_Witness ==
    /\ pc = "returned"
    /\ \E f \in fallbackNodes :
          \E ai, aj \in {ak \in 1..(f - 1) : ActiveAt(ak, nodes[f].index)} :
              /\ ai < aj
              /\ nodes[ai].line # nodes[aj].line
              /\ nodes[f].prev = aj

-----------------------------------------------------------------------------
(* Line numbers: the line a node stands for and the length it was tested   *)
(* against.                                                                *)

\* the number of prev links from node ai back to the initial node
Depth(ai) == Len(ChainIds(nodes, ai)) - 1

\* adjustmentRatio of the line from node a to items[i] when the line is
\* tested against the length ideal
RatioAgainst(a, i, ideal) ==
    LET lineShrink == SumBefore(items, "shrink", i) - a.totalShrink
        lineStretch == SumBefore(items, "stretch", i) - a.totalStretch
    IN IF ActualLen(a, i) < ideal
       THEN Quot(ideal - ActualLen(a, i), lineStretch)
       ELSE Quot(ideal - ActualLen(a, i), lineShrink)

\* the feasible node ni was made for a line tested against the line length
\* numbered by the depth of its predecessor
TestedAgainstDepth(ni) ==
    LET n == nodes[ni]
        a == nodes[n.prev]
        r == RatioAgainst(a, n.index, LineLenOf(lineLengths, Depth(n.prev)))
    IN /\ RGe(r, MIN_ADJUSTMENT_RATIO)
       /\ RLe(r, currentMaxAdjustmentRatio)
       /\ n.fitness = Fitness(r)
       /\ n.totalDemerits =
             BigAdd(a.totalDemerits,
                    BigAdd(BaseDemerits(r, Item(n.index)),
                           BigDemerits(DoubleHyphenPenalty(a, Item(n.index))
                                       + FitnessPenalty(a, n.fitness))))

-----------------------------------------------------------------------------
(* C27: for every node in the active set, line is the number of prev links *)
(* back to the initial node; a feasible node was made for a line tested    *)
(* against lineLen(a.line), a its predecessor; so line i (0-based) of the  *)
(* returned breakpoints starts at a node with line = i: it was tested      *)
(* against the lineLengths[i] that adjustmentRatios and positionItems use. *)
C27_LineNumbers ==
    /\ pc = "loop" =>
          /\ \A ai \in active : nodes[ai].line = Depth(ai)
          /\ \A ni \in FeasibleNodes : TestedAgainstDepth(ni)
    /\ (pc = "returned" /\ items # <<>>) =>
          /\ Len(ResultNodes) = Len(output)
          /\ \A i \in 0..(Len(output) - 1) :
                /\ nodes[ResultNodes[i + 1]].line = i
                /\ nodes[ResultNodes[i + 1]].index = output[i + 1]

\* a result of two lines, none from the fallback, with line lengths that
\* differ from line to line
C27_Witness ==
    /\ pc = "returned"
    /\ lineLengths.array
    /\ Len(output) >= 3
    /\ fallbackNodes = {}
    /\ lineLengths.lens[1] # lineLengths.lens[2]

-----------------------------------------------------------------------------
(* Fitness classes, read off the ratio of a node's line.                   *)

\* the class of the ratio r = r.v / scale by the bounds -0.5, 0.5 and 1
FitnessClass(r) ==
    IF r.t = "inf" THEN 3
    ELSE IF 2 * r.v < -scale THEN 0
    ELSE IF -scale <= 2 * r.v /\ 2 * r.v < scale THEN 1
    ELSE IF scale <= 2 * r.v /\ r.v < scale THEN 2
    ELSE 3

\* the line that ends at node ni is not the first and its class differs by
\* more than 1 from the class of the line before
Contrast(ni) ==
    LET n == nodes[ni]
        a == nodes[n.prev]
    IN a.index > 0 /\ Abs(n.fitness - a.fitness) > 1

\* demerits of node ni less those of its predecessor, of the ratio and the
\* penalty, and of two hyphens in a row, are extra
DemeritsWithContrast(ni, extra) ==
    LET n == nodes[ni]
        a == nodes[n.prev]
        r == NodeRatio(a, n.index)
    IN n.totalDemerits =
         BigAdd(a.totalDemerits,
                BigAdd(BaseDemerits(r, Item(n.index)),
                       BigDemerits(DoubleHyphenPenalty(a, Item(n.index)) + extra)))

-----------------------------------------------------------------------------
(* C28: the fitness class of a feasible line is 0 if r < -0.5, 1 if        *)
(* -0.5 <= r < 0.5, 2 if 0.5 <= r < 1 and 3 otherwise;                     *)
(* adjacentLooseTightPenalty is added to the demerits of the line exactly  *)
(* when the predecessor node is not at index 0 and the two classes differ  *)
(* by more than 1; with adjacentLooseTightPenalty = 0 the demerits of a    *)
(* node hold no term that depends on the classes.                          *)
C28_FitnessClasses ==
    pc \in {"loop", "returned"} =>
        \A ni \in FeasibleNodes :
            /\ nodes[ni].fitness =
                  FitnessClass(NodeRatio(nodes[nodes[ni].prev], nodes[ni].index))
            /\ DemeritsWithContrast(ni, IF Contrast(ni)
                                        THEN opts.adjacentLooseTightPenalty ELSE 0)
            /\ opts.adjacentLooseTightPenalty # 0 =>
                  (DemeritsWithContrast(ni, opts.adjacentLooseTightPenalty)
                     <=> Contrast(ni))
            /\ opts.adjacentLooseTightPenalty = 0 => DemeritsWithContrast(ni, 0)

\* a returned layout with a line charged for the contrast with the line
\* before it, and a first line of class 2 or 3 that is not charged
C28_Witness ==
    /\ pc = "returned"
    /\ items # <<>>
    /\ opts.adjacentLooseTightPenalty > 0
    /\ \E k \in 3..Len(ResultNodes) :
          /\ ResultNodes[k] \in FeasibleNodes
          /\ Contrast(ResultNodes[k])
    /\ \E ni \in FeasibleNodes :
          nodes[ni].prev = 1 /\ nodes[ni].fitness >= 2

-----------------------------------------------------------------------------
(* Feasibility and demerits by the formulas of the specification, on the   *)
(* integers k and scale of a ratio r = k / scale.                          *)

\* -1 <= r <= threshold
WithinBounds(r, threshold) ==
    /\ r.t = "fin"
    /\ r.v >= -scale
    /\ threshold.t = "inf" \/ (threshold.t = "fin" /\ r.v <= threshold.v)

\* 1 + badness with badness = 100 * |r|^3, times scale^3
OnePlusBadness(r) ==
    BigAdd(BigCubeOf(scale),
           BigMul(BigFromInt(100),
                  BigMul(BigFromInt(Abs(r.v)),
                         BigMul(BigFromInt(Abs(r.v)), BigFromInt(Abs(r.v))))))

\* the demerits of a line of ratio r that ends at a break of cost p, times
\* scale^6: (1 + badness + p)^2 written out as
\* (1 + badness)^2 + 2 p (1 + badness) + p^2 for p >= 0,
\* (1 + badness)^2 - p^2 for MIN_COST < p < 0, (1 + badness)^2 otherwise
DemeritsFormula(r, p) ==
    LET one == BigCubeOf(scale)
        square == BigMul(OnePlusBadness(r), OnePlusBadness(r))
        pSquare == BigMul(BigFromInt(p * p), BigMul(one, one))
    IN IF p >= 0
       THEN BigAdd(square,
                   BigAdd(BigMul(BigFromInt(2 * p), BigMul(one, OnePlusBadness(r))),
                          pSquare))
       ELSE IF MIN_COST < p
       THEN BigSub(square, pSquare)
       ELSE square

\* the cost of items[i] as a break: 0 for a glue
BreakCost(i) == IF Item(i).type = "penalty" THEN Item(i).cost ELSE 0

\* the node ni of the feasibility branch: its line is within the bounds
\* and its demerits are those of the formula plus the two penalties of the
\* options
FeasibleByFormula(ni) ==
    LET n == nodes[ni]
        a == nodes[n.prev]
        r == NodeRatio(a, n.index)
    IN /\ WithinBounds(r, currentMaxAdjustmentRatio)
       /\ n.totalDemerits =
             BigAdd(a.totalDemerits,
                    BigAdd(DemeritsFormula(r, BreakCost(n.index)),
                           BigDemerits(DoubleHyphenPenalty(a, Item(n.index))
                                       + FitnessPenalty(a, n.fitness))))

\* an iteration at a legal breakpoint that goes on to the next item adds a
\* node of the feasibility branch exactly when the line from some active
\* node is within the bounds, and the node comes from such a node; an
\* iteration that recurses or throws MaxAdjustmentExceededError has none
FeasibleExactlyWithin ==
    ( /\ pc = "loop" /\ b < Len(items)
      /\ ~InvalidItem(Item(b))
      /\ CanBreakAt(items, b) ) =>
        LET within == {ai \in active :
                          WithinBounds(NodeRatio(nodes[ai], b), currentMaxAdjustmentRatio)}
            new == Len(nodes) + 1
        IN IF pc' = "loop" /\ b' = b + 1
           THEN /\ within # {} <=> (Len(nodes') = new /\ new \notin fallbackNodes')
                /\ within # {} => nodes'[new].prev \in within
           ELSE within = {}

-----------------------------------------------------------------------------
(* C29: the line from node a to breakpoint b is feasible exactly when      *)
(* -1 <= r <= threshold, both bounds included, and its demerits before the *)
(* penalties of the options are, with badness = 100 |r|^3 and p the cost   *)
(* of a penalty item (0 for a glue), (1 + badness + p)^2 if p >= 0,        *)
(* (1 + badness)^2 - p^2 if MIN_COST < p < 0, (1 + badness)^2 if           *)
(* p <= MIN_COST.                                                          *)
C29_FeasibilityAndDemerits ==
    /\ [](pc \in {"loop", "returned"} =>
            \A ni \in FeasibleNodes : FeasibleByFormula(ni))
    /\ [][FeasibleExactlyWithin]_vars

\* a result with a line of ratio -1 that ends at a penalty of negative cost
\* above MIN_COST and a line whose ratio equals the threshold
C29_Witness ==
    /\ pc = "returned"
    /\ items # <<>>
    /\ \E ni \in FeasibleNodes :
          /\ NodeRatio(nodes[nodes[ni].prev], nodes[ni].index) = Num(-1)
          /\ BreakCost(nodes[ni].index) < 0
          /\ BreakCost(nodes[ni].index) > MIN_COST
    /\ \E ni \in FeasibleNodes :
          /\ NodeRatio(nodes[nodes[ni].prev], nodes[ni].index)
                = currentMaxAdjustmentRatio
          /\ BreakCost(nodes[ni].index) <= MIN_COST

-----------------------------------------------------------------------------
(* The records of positionItems, read against the lines of the breakpoints. *)

\* the boxes of the input, as item indices
Boxes == {i \in 0..(Len(items) - 1) : Item(i).type = "box"}

\* the records positionItems returned for items[i]
RecordsOf(i) == {k \in 1..Len(positions) : positions[k].item = i}

\* items[i] is on line l (0-based) of the breakpoints
OnLine(i, l) == LineStart(breakpoints, l) <= i /\ i <= breakpoints[l + 2]

\* items[i] is the first box of its line
FirstBoxOfLine(i) ==
    /\ i \in Boxes
    /\ \A l \in 0..(Len(breakpoints) - 2) :
          OnLine(i, l) => \A j \in Boxes : OnLine(j, l) => i <= j

\* one record for each box, in increasing item order, on the line that
\* holds the box
OneRecordPerBox ==
    /\ \A i \in Boxes : Cardinality(RecordsOf(i)) = 1
    /\ \A k \in 1..(Len(positions) - 1) : positions[k].item < positions[k + 1].item
    /\ \A k \in 1..Len(positions) :
          positions[k].item \in Boxes =>
              /\ positions[k].line \in 0..(Len(breakpoints) - 2)
              /\ OnLine(positions[k].item, positions[k].line)

\* the first box of each line is at the left margin
FirstBoxAtMargin ==
    \A k \in 1..Len(positions) :
        FirstBoxOfLine(positions[k].item) => positions[k].xOffset = Num(0)

\* no record for a glue unless includeGlue; a record for a penalty only if
\* it ends a line and has a width above 0
OnlyLineEndPenalties ==
    \A k \in 1..Len(positions) :
        LET item == Item(positions[k].item)
        IN /\ item.type = "glue" => includeGlue
           /\ item.type = "penalty" =>
                 /\ item.width > 0
                 /\ \E l \in 0..(Len(breakpoints) - 2) :
                       breakpoints[l + 2] = positions[k].item

-----------------------------------------------------------------------------
(* C30: for the breakpoints breakLines returned on a paragraph (items of   *)
(* non-negative sizes that start with a box and end with a finishing glue  *)
(* and a forced break), positionItems returns exactly one record for every *)
(* box, in increasing item order, with line the index of the line that     *)
(* holds the box and with the first box of each line at xOffset 0; without *)
(* includeGlue it returns no record for a glue, and it returns a record    *)
(* for a penalty only when the penalty ends a line and has width > 0.      *)
C30_PositionsOfBoxes ==
    ( /\ pc = "positioned"
      /\ NonNegative(items)
      /\ WellFormed(items)
      /\ Paragraph(items) ) =>
        /\ OneRecordPerBox
        /\ FirstBoxAtMargin
        /\ OnlyLineEndPenalties

=============================================================================
